---- MODULE Spec2Model ----
(***************************************************************************)
(* Model of the J.A.R.V.I.S assistant front-end:                           *)
(*   - the retry executor            (services/geminiService.ts)           *)
(*   - the tool executor and the tool-calling loop of getAiResponse        *)
(*   - the turn handlers handleSendMessage / handleConsent   (App.tsx)     *)
(*   - the chunked speech pipeline playAiSpeech / playAudio  (App.tsx)     *)
(*   - the pure functions formatHistoryForApi and selectModel              *)
(*   - the live conversation  (components/LiveConversationModal.tsx)       *)
(* The specifications RetrySpec, SpeechSpec, OrchSpec (the service alone), *)
(* Spec (the turn handlers with the service), PureSpec and LiveSpec share  *)
(* module.  The variables of the other components stay at their initial    *)
(* values in each of them.                                                 *)
(***************************************************************************)
EXTENDS Integers, Sequences, FiniteSets, TLC

VARIABLES
    \* ---- retry executor (one retryWithBackoff invocation) ----
    rPc,          \* "idle" | "calling" | "waiting" | "returned" | "raised"
    rRetries,     \* the retries argument of the invocation
    rAttempt,     \* local variable attempt
    rCalls,       \* number of times operation() has been invoked
    rErrs,        \* errors thrown by operation(), in order
    rDelays,      \* delays handed to setTimeout, in order
    rRaised,      \* the error thrown to the caller, NoError while none
    \* ---- speech pipeline (App.tsx) ----
    speechGeneration,      \* speechGenerationRef.current
    audioSourceRef,        \* audioSourceRef.current: a source id, 0 for null
    isVoiceOutputEnabled,  \* the state of the voice toggle
    sources,               \* the AudioBufferSourceNodes created so far
    jobs,                  \* the playAiSpeech invocations (their playLoop closures)
    turnOpen,              \* a turn is between its stopAudioInternal and its end
    turnVoice,             \* isVoiceOutputEnabled as captured by the turn's closure
    started,               \* history: every source.start(), with the counter then
    synthLog,              \* history: every getAiSpeech request, with the counter then
    \* ---- orchestrator: one getAiResponse / getAiResponseAfterConsent call ----
    oFn,            \* "none" | "respond" | "afterConsent"
    oPc,            \* where the call is awaiting, "returned" or "raised" at its end
    oCall,          \* the functionCall being handled
    oRounds,        \* tool round trips that looped back to the model
    oLearned,       \* learnedFacts
    oMedia,         \* the media generated in this call: "none" | "image" | "video"
    oInTry,         \* the awaited chat.sendMessage is inside a try block
    oExchange,      \* the parts sent on the chat of this call, in order
    oDispatched,    \* the tool handlers invoked in this call, with their arguments
    oResponseCalls, \* response.functionCalls of the response the loop has examined last
    oResponse,      \* the AiResponse returned
    oError,         \* the error thrown to the caller
    oConnections,   \* argument connections: the connected e-mail accounts
    oHistoryImage,  \* the last user image of the history argument: "none" | "valid" | "invalid"
    oAction,        \* argument action of getAiResponseAfterConsent
    \* ---- App state ----
    chatSessions,       \* session id -> messages
    activeChatId,
    isLoading,
    connectedAccounts,  \* integrations: the connected accounts of 'email'
    userMemory,
    turn,               \* the handler invocation awaiting the service, its closure
    sends,              \* handleSendMessage invocations so far
    granted,            \* history: tool names the user has granted consent for
    consumed,           \* history: the messages (chat, position) handleConsent has run for
    isProjectKeyNeeded, \* state isProjectKeyNeeded: the project button is shown
    \* ---- pure functions of the service, applied to an input ----
    fHistory,           \* argument history of formatHistoryForApi
    fOutput,            \* the Content[] it returned
    sPrompt,            \* argument prompt of selectModel, a sequence of characters
    sMedia,             \* argument media: its type, "none" when undefined
    sModel,             \* the model name selectModel returned
    sThinking,          \* the thinkingBudget getAiResponse puts in config, 0 for none
    cText,              \* argument text of splitTextIntoChunks, a sequence of characters
    cChunks,            \* the string[] it returned
    \* ---- LiveConversationModal ----
    liveOpen,           \* prop isOpen
    liveStatus,         \* state status
    liveErrorText,      \* state error, "" for null
    transcription,      \* state transcription: the authors of its entries
    livePc,             \* startConversation: "idle" | "media" | "connect" | "session" | "failed"
    liveSession,        \* the live session: "none" | "open" | "closed"
    liveSessionRef,     \* liveSessionRef.current is set
    liveCurrent,        \* currentInputTranscription / currentOutputTranscription are non-empty
    liveStarts,         \* startConversation invocations so far
    liveConnects,       \* ai.live.connect invocations of the last startConversation
    liveConnectError    \* the error ai.live.connect rejected with

retryVars == <<rPc, rRetries, rAttempt, rCalls, rErrs, rDelays, rRaised>>

speechVars == <<speechGeneration, audioSourceRef, isVoiceOutputEnabled, sources,
                jobs, turnOpen, turnVoice, started, synthLog>>

orchVars == <<oFn, oPc, oCall, oRounds, oLearned, oMedia, oInTry, oExchange,
              oDispatched, oResponse, oError, oConnections, oHistoryImage, oAction,
              oResponseCalls>>

appVars == <<chatSessions, activeChatId, isLoading, connectedAccounts, userMemory,
             turn, sends, granted, consumed, isProjectKeyNeeded>>

pureVars == <<fHistory, fOutput, sPrompt, sMedia, sModel, sThinking, cText, cChunks>>

liveVars == <<liveOpen, liveStatus, liveErrorText, transcription, livePc, liveSession,
              liveSessionRef, liveCurrent, liveStarts, liveConnects, liveConnectError>>

vars == <<retryVars, speechVars, orchVars, appVars, pureVars, liveVars>>

(***************************************************************************)
(* Retry executor                                                          *)
(***************************************************************************)

\* a step of the retry executor leaves the other components alone
RetryFrame == UNCHANGED <<speechVars, orchVars, appVars, pureVars, liveVars>>

\* default value of the parameter retries
DefaultRetries == 3

\* default value of the parameter initialDelay (milliseconds)
InitialDelay == 1000

\* The shapes of error the gateway client can throw, by the fields the code
\* looks at: status, code (0 = absent), whether the message contains the word
\* 'overloaded' and whether it contains 'billed users'.
ErrorShapes ==
    { [status |-> 503, code |-> 0,   overloadedMsg |-> FALSE, billedUsersMsg |-> FALSE],
      [status |-> 429, code |-> 0,   overloadedMsg |-> FALSE, billedUsersMsg |-> FALSE],
      [status |-> 0,   code |-> 503, overloadedMsg |-> FALSE, billedUsersMsg |-> FALSE],
      [status |-> 0,   code |-> 429, overloadedMsg |-> FALSE, billedUsersMsg |-> FALSE],
      [status |-> 500, code |-> 0,   overloadedMsg |-> TRUE, billedUsersMsg |-> FALSE],
      [status |-> 500, code |-> 0,   overloadedMsg |-> FALSE, billedUsersMsg |-> FALSE],
      [status |-> 400, code |-> 0,   overloadedMsg |-> FALSE, billedUsersMsg |-> FALSE],
      [status |-> 403, code |-> 0,   overloadedMsg |-> FALSE, billedUsersMsg |-> TRUE],
      [status |-> 0,   code |-> 0,   overloadedMsg |-> FALSE, billedUsersMsg |-> FALSE] }

NoError == [status |-> -1, code |-> -1, overloadedMsg |-> FALSE, billedUsersMsg |-> FALSE]

isOverloaded(error) ==
    error.status = 503 \/ error.code = 503 \/ error.overloadedMsg

isRateLimited(error) ==
    error.status = 429 \/ error.code = 429

IsTransient(error) == isOverloaded(error) \/ isRateLimited(error)

\* 2^n
RECURSIVE Pow2(_)
Pow2(n) == IF n <= 0 THEN 1 ELSE 2 * Pow2(n - 1)

BackoffDelayFromTwo(initialDelay, attempt) == initialDelay * Pow2(attempt)

BackoffDelay(initialDelay, attempt) == initialDelay * Pow2(attempt - 1)

ShouldThrowOffByOne(attempt, retries, error) ==
    attempt >= retries \/ ~IsTransient(error)

ShouldThrowNoClassify(attempt, retries, error) ==
    attempt > retries

\* the condition of the throw inside the catch block
ShouldThrow(attempt, retries, error) ==
    attempt > retries \/ ~IsTransient(error)

\* the error the catch block rethrows: the one it has just caught
RaisedError(errs) == errs[Len(errs)]

RetryInit ==
    /\ rPc = "idle"
    /\ rRetries = DefaultRetries
    /\ rAttempt = 0
    /\ rCalls = 0
    /\ rErrs = <<>>
    /\ rDelays = <<>>
    /\ rRaised = NoError

\* retryWithBackoff(operation, retries): entry, first operation() call
RetryStart(retries) ==
    /\ rPc = "idle"
    /\ rPc' = "calling"
    /\ rRetries' = retries
    /\ rAttempt' = 0
    /\ rCalls' = rCalls + 1
    /\ UNCHANGED <<rErrs, rDelays, rRaised>>
    /\ RetryFrame

\* operation() resolves: return await operation()
OperationResolves ==
    /\ rPc = "calling"
    /\ rPc' = "returned"
    /\ UNCHANGED <<rRetries, rAttempt, rCalls, rErrs, rDelays, rRaised>>
    /\ RetryFrame

\* operation() rejects with error: the catch block
OperationRejects(error) ==
    /\ rPc = "calling"
    /\ rAttempt' = rAttempt + 1
    /\ rErrs' = Append(rErrs, error)
    /\ IF ShouldThrow(rAttempt', rRetries, error)
         THEN /\ rPc' = "raised"
              /\ rRaised' = RaisedError(rErrs')
              /\ UNCHANGED rDelays
         ELSE /\ rPc' = "waiting"
              /\ rDelays' = Append(rDelays, BackoffDelay(InitialDelay, rAttempt'))
              /\ UNCHANGED rRaised
    /\ UNCHANGED <<rRetries, rCalls>>
    /\ RetryFrame

\* the setTimeout of the backoff fires: next loop iteration, operation() again
DelayElapsed ==
    /\ rPc = "waiting"
    /\ rPc' = "calling"
    /\ rCalls' = rCalls + 1
    /\ UNCHANGED <<rRetries, rAttempt, rErrs, rDelays, rRaised>>
    /\ RetryFrame

RetryNext ==
    \/ \E retries \in 0..DefaultRetries : RetryStart(retries)
    \/ OperationResolves
    \/ \E error \in ErrorShapes : OperationRejects(error)
    \/ DelayElapsed


(***************************************************************************)
(* Speech pipeline: playAiSpeech, playLoop, playAudio, stopAudioInternal    *)
(***************************************************************************)

\* turns (stopAudioInternal ... playAiSpeech) explored
SpeechMaxTurns == 2

\* chunks splitTextIntoChunks may return for one text
SpeechMaxChunks == 2

\* largest value of the generation counter at which a turn or a click on the
\* voice toggle may still begin
SpeechMaxGeneration == 4

SpeechFrame == UNCHANGED <<retryVars, orchVars, appVars, pureVars, liveVars>>

SpeechInit ==
    /\ speechGeneration = 0
    /\ audioSourceRef = 0
    /\ isVoiceOutputEnabled = TRUE
    /\ sources = <<>>
    /\ jobs = <<>>
    /\ turnOpen = FALSE
    /\ turnVoice = TRUE
    /\ started = <<>>
    /\ synthLog = <<>>

\* source.stop() on every source in ids: a playing source falls silent, its
\* ended event is still to be dispatched; stop() on any other source throws
\* and the throw is ignored
StopSources(srcs, ids) ==
    [k \in 1..Len(srcs) |->
        IF k \in ids /\ srcs[k].state = "playing"
          THEN [srcs[k] EXCEPT !.state = "stopped"]
          ELSE srcs[k]]

\* playLoop(index) up to its first await, for a job whose closure holds genId
\* and chunks: past the last chunk it returns, on a stale generation it
\* returns, otherwise it requests the synthesis of chunk index
PlayLoopEntryNoCheck(job, index, generation) ==
    IF index >= job.chunks
      THEN [job EXCEPT !.index = index, !.pc = "done"]
      ELSE [job EXCEPT !.index = index, !.pc = "synth"]

PlayLoopEntry(job, index, generation) ==
    IF index >= job.chunks
      THEN [job EXCEPT !.index = index, !.pc = "done"]
      ELSE IF generation # job.genId
        THEN [job EXCEPT !.index = index, !.pc = "aborted"]
        ELSE [job EXCEPT !.index = index, !.pc = "synth"]

\* the getAiSpeech request a playLoop entry has issued, if any
SynthRequests(log, job, generation) ==
    IF job.pc = "synth"
      THEN Append(log, [genId |-> job.genId, chunk |-> job.index,
                        generation |-> generation])
      ELSE log

\* stopAudioInternal()
stopAudioInternal ==
    /\ speechGeneration' = speechGeneration + 1
    /\ IF audioSourceRef # 0
         THEN sources' = StopSources(sources, {audioSourceRef})
         ELSE UNCHANGED sources
    /\ audioSourceRef' = 0

\* what handleSendMessage / handleConsent do to the audio when they begin a
\* turn: stopAudioInternal(); the handler keeps the playAiSpeech of its render
HandlerStopsAudio ==
    /\ stopAudioInternal
    /\ turnOpen' = TRUE
    /\ turnVoice' = isVoiceOutputEnabled
    /\ UNCHANGED <<isVoiceOutputEnabled, jobs, started, synthLog>>

\* handleSendMessage / handleConsent begin a turn
TurnStart ==
    /\ ~turnOpen
    /\ Len(jobs) < SpeechMaxTurns
    /\ speechGeneration < SpeechMaxGeneration
    /\ HandlerStopsAudio
    /\ SpeechFrame

\* playAiSpeech(text), text splitting into n chunks, up to the first await of
\* playLoop(0); the playAiSpeech the handler calls is the one of the render
\* the handler was created in, with that render's isVoiceOutputEnabled
playAiSpeech(n) ==
    /\ IF ~turnVoice
         THEN UNCHANGED <<speechGeneration, jobs, synthLog>>
         ELSE LET currentGenId == speechGeneration + 1
                  job == PlayLoopEntry([genId |-> currentGenId, chunks |-> n,
                                        index |-> 0, pc |-> "new", src |-> 0],
                                       0, currentGenId)
              IN /\ speechGeneration' = currentGenId
                 /\ jobs' = Append(jobs, job)
                 /\ synthLog' = SynthRequests(synthLog, job, currentGenId)
    /\ UNCHANGED <<audioSourceRef, isVoiceOutputEnabled, sources, turnVoice, started>>

\* the handler ends without calling playAiSpeech
NoSpeech ==
    UNCHANGED <<speechGeneration, audioSourceRef, isVoiceOutputEnabled,
                sources, jobs, turnVoice, started, synthLog>>

\* the turn ends with playAiSpeech(text)
TurnEndSpeaks(n) ==
    /\ turnOpen
    /\ turnOpen' = FALSE
    /\ playAiSpeech(n)
    /\ SpeechFrame

\* the turn ends without speech (consent, billing and media responses)
TurnEndSilent ==
    /\ turnOpen
    /\ turnOpen' = FALSE
    /\ NoSpeech
    /\ SpeechFrame

\* handleToggleVoice
handleToggleVoice ==
    /\ speechGeneration < SpeechMaxGeneration
    /\ IF isVoiceOutputEnabled
         THEN stopAudioInternal
         ELSE UNCHANGED <<speechGeneration, sources, audioSourceRef>>
    /\ isVoiceOutputEnabled' = ~isVoiceOutputEnabled
    /\ UNCHANGED <<jobs, turnOpen, turnVoice, started, synthLog>>
    /\ SpeechFrame

\* getAiSpeech(chunkText) resolves for job j, with audio (ok) or with null
SynthReturns(j, ok) ==
    /\ j \in 1..Len(jobs)
    /\ jobs[j].pc = "synth"
    /\ IF speechGeneration # jobs[j].genId
         THEN /\ jobs' = [jobs EXCEPT ![j].pc = "aborted"]
              /\ UNCHANGED synthLog
         ELSE IF ok
           THEN /\ jobs' = [jobs EXCEPT ![j].pc = "decode"]
                /\ UNCHANGED synthLog
           ELSE LET job == PlayLoopEntry(jobs[j], jobs[j].index + 1, speechGeneration)
                IN /\ jobs' = [jobs EXCEPT ![j] = job]
                   /\ synthLog' = SynthRequests(synthLog, job, speechGeneration)
    /\ UNCHANGED <<speechGeneration, audioSourceRef, isVoiceOutputEnabled,
                   sources, turnOpen, turnVoice, started>>
    /\ SpeechFrame

PlayAudioStartsNoAwait(j) ==
    /\ j \in 1..Len(jobs)
    /\ jobs[j].pc = "decode"
    /\ LET k == Len(sources) + 1
           stopped == IF audioSourceRef # 0
                        THEN StopSources(sources, {audioSourceRef})
                        ELSE sources
           job == PlayLoopEntry([jobs[j] EXCEPT !.src = k], jobs[j].index + 1,
                                speechGeneration)
       IN /\ sources' = Append(stopped, [job |-> j, chunk |-> jobs[j].index,
                                         state |-> "playing"])
          /\ audioSourceRef' = k
          /\ jobs' = [jobs EXCEPT ![j] = job]
          /\ synthLog' = SynthRequests(synthLog, job, speechGeneration)
    /\ started' = Append(started, [genId |-> jobs[j].genId, chunk |-> jobs[j].index,
                                   generation |-> speechGeneration])
    /\ UNCHANGED <<speechGeneration, isVoiceOutputEnabled, turnOpen, turnVoice>>
    /\ SpeechFrame

\* playAudio for job j: fetch and decodeAudioData have resolved; the current
\* source is stopped, a new one is created, started and stored in the ref
PlayAudioStarts(j) ==
    /\ j \in 1..Len(jobs)
    /\ jobs[j].pc = "decode"
    /\ LET k == Len(sources) + 1
           stopped == IF audioSourceRef # 0
                        THEN StopSources(sources, {audioSourceRef})
                        ELSE sources
       IN /\ sources' = Append(stopped, [job |-> j, chunk |-> jobs[j].index,
                                         state |-> "playing"])
          /\ audioSourceRef' = k
          /\ jobs' = [jobs EXCEPT ![j].pc = "playing", ![j].src = k]
    /\ started' = Append(started, [genId |-> jobs[j].genId, chunk |-> jobs[j].index,
                                   generation |-> speechGeneration])
    /\ UNCHANGED <<speechGeneration, isVoiceOutputEnabled, turnOpen, turnVoice, synthLog>>
    /\ SpeechFrame

PlayAudioFailsNoResume(j) ==
    /\ j \in 1..Len(jobs)
    /\ jobs[j].pc = "decode"
    /\ audioSourceRef' = 0
    /\ jobs' = [jobs EXCEPT ![j].pc = "playing"]
    /\ UNCHANGED <<speechGeneration, isVoiceOutputEnabled, sources, turnOpen, turnVoice,
                   started, synthLog>>
    /\ SpeechFrame

\* playAudio for job j: fetch or decodeAudioData throws; the catch block
\* clears the ref and calls onEnded, which resumes playLoop(index + 1)
PlayAudioFails(j) ==
    /\ j \in 1..Len(jobs)
    /\ jobs[j].pc = "decode"
    /\ audioSourceRef' = 0
    /\ LET job == PlayLoopEntry(jobs[j], jobs[j].index + 1, speechGeneration)
       IN /\ jobs' = [jobs EXCEPT ![j] = job]
          /\ synthLog' = SynthRequests(synthLog, job, speechGeneration)
    /\ UNCHANGED <<speechGeneration, isVoiceOutputEnabled, sources, turnOpen, turnVoice, started>>
    /\ SpeechFrame

\* the ended event of source k (it played to its end, or it was stopped):
\* source.onended clears the ref if it still holds k and calls onEnded,
\* which resumes playLoop(index + 1) of the job that started k
SourceOnEnded(k) ==
    /\ k \in 1..Len(sources)
    /\ sources[k].state \in {"playing", "stopped"}
    /\ sources' = [sources EXCEPT ![k].state = "ended"]
    /\ audioSourceRef' = IF audioSourceRef = k THEN 0 ELSE audioSourceRef
    /\ LET j == sources[k].job
           job == PlayLoopEntry(jobs[j], jobs[j].index + 1, speechGeneration)
       IN /\ jobs' = [jobs EXCEPT ![j] = job]
          /\ synthLog' = SynthRequests(synthLog, job, speechGeneration)
    /\ UNCHANGED <<speechGeneration, isVoiceOutputEnabled, turnOpen, turnVoice, started>>
    /\ SpeechFrame

SpeechNext ==
    \/ TurnStart
    \/ \E n \in 0..SpeechMaxChunks : TurnEndSpeaks(n)
    \/ TurnEndSilent
    \/ handleToggleVoice
    \/ \E j \in 1..SpeechMaxTurns, ok \in BOOLEAN : SynthReturns(j, ok)
    \/ \E j \in 1..SpeechMaxTurns : PlayAudioStarts(j)
    \/ \E j \in 1..SpeechMaxTurns : PlayAudioFails(j)
    \/ \E k \in 1..(SpeechMaxTurns * SpeechMaxChunks) : SourceOnEnded(k)

(***************************************************************************)
(* Orchestrator: executeTool, getAiResponse, getAiResponseAfterConsent     *)
(***************************************************************************)

\* tool round trips of one getAiResponse call that loop back to the model
MaxRounds == 1

\* entries of groundingChunks in a grounded answer
MaxGroundingChunks == 2

\* MOCK_DEVICE_ACCOUNTS
Accounts == {"personal@example.com", "work@example.com"}

\* the keys of availableTools
availableTools ==
    {"getEmails", "getCalendarEvents", "createCalendarEvent", "getWellbeingData",
     "getSmartHomeStatus", "getUserLocation", "useGoogleSearch", "useGoogleMaps",
     "rememberFact"}

\* the tools that read or write the user's private data
PrivateTools ==
    {"getEmails", "getCalendarEvents", "createCalendarEvent", "getWellbeingData",
     "getSmartHomeStatus"}

\* facts the model may ask to remember
Facts == {"f1", "f2"}

\* tool arguments: the object may be missing; accountIds is the one argument
\* the executor and the handlers look into (empty when absent)
UndefinedArgs == [defined |-> FALSE, accountIds |-> {}]

ObjectArgs(accountIds) == [defined |-> TRUE, accountIds |-> accountIds]

\* functionCall.args.toolArgs || {}
OrEmptyObject(toolArgs) == IF toolArgs.defined THEN toolArgs ELSE ObjectArgs({})

FunctionCall(name, toolToCall, toolArgs, fact) ==
    [name |-> name, toolToCall |-> toolToCall, toolArgs |-> toolArgs, fact |-> fact]

NoCall == FunctionCall("", "", UndefinedArgs, "")

NoAction == [toolName |-> "", toolArgs |-> UndefinedArgs]

\* requestPermission calls the model may issue
PermissionCalls ==
    {FunctionCall("requestPermission", "getEmails", a, "") :
        a \in {UndefinedArgs} \cup {ObjectArgs(ids) : ids \in SUBSET Accounts}}
    \cup {FunctionCall("requestPermission", t, UndefinedArgs, "") :
            t \in {"getCalendarEvents", "generateImage", "requestLocation"}}

\* calls of the tools getAiResponse handles itself
SpecialCalls ==
    {FunctionCall("rememberFact", "", ObjectArgs({}), f) : f \in Facts}
    \cup {FunctionCall(t, "", ObjectArgs({}), "") :
            t \in {"generateImage", "editImage", "generateVideo",
                   "useGoogleSearch", "useGoogleMaps"}}

\* calls that reach executeTool: registered tools, the location tool and a
\* name that is not declared at all
RegularCalls ==
    {FunctionCall("getEmails", "", ObjectArgs(ids), "") : ids \in SUBSET Accounts}
    \cup {FunctionCall(t, "", ObjectArgs({}), "") :
            t \in {"getCalendarEvents", "createCalendarEvent", "getWellbeingData",
                   "getSmartHomeStatus", "getUserLocation", "requestLocation",
                   "openGarage"}}

ModelCalls == PermissionCalls \cup SpecialCalls \cup RegularCalls

\* GenerateContentResponse: its text and its functionCalls
TextReply == [text |-> "modelText", functionCalls |-> <<>>]

CallReply(call) == [text |-> "", functionCalls |-> <<call>>]

Replies == {TextReply} \cup {CallReply(c) : c \in ModelCalls}

\* responses of the loop that carry two function calls
PairReplies ==
    {[text |-> "", functionCalls |-> <<first, second>>] :
        first \in {FunctionCall("getEmails", "", ObjectArgs({}), ""),
                   FunctionCall("rememberFact", "", ObjectArgs({}), "f1"),
                   FunctionCall("requestPermission", "getEmails", UndefinedArgs, "")},
        second \in {FunctionCall("getCalendarEvents", "", ObjectArgs({}), ""),
                    FunctionCall("rememberFact", "", ObjectArgs({}), "f2")}}

\* the responses chat.sendMessage of the loop may resolve with
LoopReplies == Replies \cup PairReplies

\* uri of a grounding chunk: chunk.web?.uri || chunk.maps?.uri || ''
GroundingUris == {"", "https://a", "https://b"}

RECURSIVE SeqsUpTo(_, _)
SeqsUpTo(S, n) ==
    IF n = 0 THEN {<<>>}
    ELSE LET shorter == SeqsUpTo(S, n - 1)
         IN shorter \cup {Append(q, x) : q \in {r \in shorter : Len(r) = n - 1}, x \in S}

GroundingChunkLists == SeqsUpTo(GroundingUris, MaxGroundingChunks)

NonEmptyUri(uri) == uri # ""

\* groundingChunks.map(...).filter(s => s.uri)
GroundingSourcesOf(chunks) == SelectSeq(chunks, NonEmptyUri)

\* a Part sent with chat.sendMessage
UserParts == [name |-> "user", kind |-> "prompt", message |-> ""]

FunctionResponse(name, kind, message) ==
    [name |-> name, kind |-> kind, message |-> message]

AiResponse(text, generatedImage, generatedVideo, grounded, groundingSources, requiresConsent, action, requiresBillingProject, learnedFacts) ==
    [text |-> text, generatedImage |-> generatedImage,
     generatedVideo |-> generatedVideo, grounded |-> grounded,
     groundingSources |-> groundingSources, requiresConsent |-> requiresConsent,
     action |-> action, requiresBillingProject |-> requiresBillingProject,
     learnedFacts |-> learnedFacts]

NoResponse == AiResponse("", FALSE, "none", FALSE, <<>>, FALSE, NoAction, FALSE, <<>>)

\* return { text: response.text, learnedFacts }
PlainResponse(text, learnedFacts) ==
    AiResponse(text, FALSE, "none", FALSE, <<>>, FALSE, NoAction, FALSE, learnedFacts)

ConsentResponseWithoutAction(functionCall, learnedFacts) ==
    AiResponse("reason", FALSE, "none", FALSE, <<>>, TRUE, NoAction, FALSE, learnedFacts)

\* the return of the requestPermission branch
ConsentResponse(functionCall, learnedFacts) ==
    AiResponse("reason", FALSE, "none", FALSE, <<>>, TRUE,
               [toolName |-> functionCall.toolToCall,
                toolArgs |-> OrEmptyObject(functionCall.toolArgs)],
               FALSE, learnedFacts)

BillingResponseWithImage(text, learnedFacts) ==
    AiResponse(text, TRUE, "none", FALSE, <<>>, FALSE, NoAction, TRUE, learnedFacts)

\* the returns with requiresBillingProject: true
BillingResponse(text, learnedFacts) ==
    AiResponse(text, FALSE, "none", FALSE, <<>>, FALSE, NoAction, TRUE, learnedFacts)

\* the return at the end of a generation branch, with the media generated
MediaResponse(text, media, learnedFacts) ==
    AiResponse(text, media = "image", IF media = "video" THEN "generating" ELSE "none",
               FALSE, <<>>, FALSE, NoAction, FALSE, learnedFacts)

\* the return of the grounding branch
GroundedResponse(text, chunks, learnedFacts) ==
    AiResponse(text, FALSE, "none", TRUE, GroundingSourcesOf(chunks), FALSE,
               NoAction, FALSE, learnedFacts)

\* error.message?.includes('billed users') || error.status === 400 || error.code === 400
IsBillingError(error) ==
    error.billedUsersMsg \/ error.status = 400 \/ error.code = 400

\* the arguments executeTool hands to the handler: toolArgs as received
HandlerArgs(toolName, toolArgs, connections) == toolArgs

OrchInit ==
    /\ oFn = "none"
    /\ oPc = "idle"
    /\ oCall = NoCall
    /\ oRounds = 0
    /\ oLearned = <<>>
    /\ oMedia = "none"
    /\ oInTry = FALSE
    /\ oExchange = <<>>
    /\ oDispatched = <<>>
    /\ oResponse = NoResponse
    /\ oError = NoError
    /\ oConnections = {}
    /\ oHistoryImage = "none"
    /\ oAction = NoAction
    /\ oResponseCalls = <<>>

\* the arguments of the call in progress do not change, and no response of
\* the loop arrives
OrchArgsUnchanged ==
    UNCHANGED <<oFn, oConnections, oHistoryImage, oAction, oResponseCalls>>

\* the call goes on: it awaits at pc
Await(pc, call, rounds, learned, media, inTry, exchange, dispatched) ==
    /\ oPc' = pc
    /\ oCall' = call
    /\ oRounds' = rounds
    /\ oLearned' = learned
    /\ oMedia' = media
    /\ oInTry' = inTry
    /\ oExchange' = exchange
    /\ oDispatched' = dispatched
    /\ oResponse' = NoResponse
    /\ oError' = NoError

\* the call returns response
Return(call, response) ==
    /\ oPc' = "returned"
    /\ oCall' = call
    /\ oResponse' = response
    /\ oInTry' = FALSE
    /\ UNCHANGED <<oRounds, oLearned, oMedia, oExchange, oDispatched, oError>>

\* the call throws error to its caller
Raise(error) ==
    /\ oPc' = "raised"
    /\ oError' = error
    /\ oInTry' = FALSE
    /\ UNCHANGED <<oCall, oRounds, oLearned, oMedia, oExchange, oDispatched, oResponse>>

ExecuteToolAnyName(toolName, toolArgs, connections, replyPc, call, rounds, learned, exchange, dispatched) ==
    Await("awaitTool", call, rounds, learned, "none", FALSE, exchange,
          Append(dispatched,
                 [tool |-> toolName,
                  args |-> HandlerArgs(toolName, toolArgs, connections)]))

\* executeTool(toolName, toolArgs, connections) up to the await of the handler,
\* or, for a name without handler, through the send of the 'not found'
\* envelope with chat.sendMessage
ExecuteTool(toolName, toolArgs, connections, replyPc, call, rounds, learned, exchange, dispatched) ==
    IF toolName \in availableTools
      THEN Await("awaitTool", call, rounds, learned, "none", FALSE, exchange,
                 Append(dispatched,
                        [tool |-> toolName,
                         args |-> HandlerArgs(toolName, toolArgs, connections)]))
      ELSE IF toolName = "requestLocation"
        THEN Await("awaitTool", call, rounds, learned, "none", FALSE, exchange,
                   Append(dispatched,
                          [tool |-> "getUserLocation", args |-> UndefinedArgs]))
        ELSE Await(replyPc, call, rounds + 1, learned, "none", FALSE,
                   Append(exchange,
                          FunctionResponse(toolName, "error", "Function not found.")),
                   dispatched)

\* the envelope executeTool returns once the handler has settled
ToolEnvelope(toolName, ok) ==
    IF ok THEN FunctionResponse(toolName, "result", "")
    ELSE IF toolName \in availableTools
      THEN FunctionResponse(toolName, "error", "Failed to execute function.")
      ELSE FunctionResponse(toolName, "error", "error.message")

\* (error as Error).message, by what the code looks for in it
ErrorMessage(error) == IF error.billedUsersMsg THEN "billed users" ELSE "error.message"

\* the catch block of a generation branch
CatchGeneration(error) ==
    IF oCall.name = "generateImage" /\ IsBillingError(error)
      THEN Return(oCall, BillingResponse("billingImageText", oLearned))
      ELSE Await("awaitFinal", oCall, oRounds, oLearned, "none", FALSE,
                 Append(oExchange,
                        FunctionResponse(oCall.name, "error", ErrorMessage(error))),
                 oDispatched)

RememberFactReturns(functionCall) ==
    Return(functionCall, PlainResponse("", Append(oLearned, functionCall.fact)))

\* the rememberFact branch of the loop: the fact is pushed to learnedFacts, the
\* envelope is sent with chat.sendMessage and the loop continues with the reply
RememberFact(functionCall) ==
    Await("awaitReply", functionCall, oRounds + 1, Append(oLearned, functionCall.fact),
          "none", FALSE,
          Append(oExchange,
                 FunctionResponse("rememberFact", "result", "Fact remembered successfully.")),
          oDispatched)

DispatchedCallLast(response) == response.functionCalls[Len(response.functionCalls)]

\* const functionCall = response.functionCalls[0]
DispatchedCall(response) == response.functionCalls[1]

\* one pass through the body of the while loop, for the response just
\* received, up to the next await or return
LoopBody(response) ==
    IF Len(response.functionCalls) = 0
      THEN Return(oCall, PlainResponse(response.text, oLearned))
      ELSE LET functionCall == DispatchedCall(response)
           IN CASE functionCall.name = "rememberFact" -> RememberFact(functionCall)
                [] functionCall.name = "requestPermission" ->
                     Return(functionCall, ConsentResponse(functionCall, oLearned))
                [] functionCall.name = "generateImage" ->
                     Await("awaitGeneration", functionCall, oRounds, oLearned, "none",
                           TRUE, oExchange, oDispatched)
                [] functionCall.name = "editImage" ->
                     IF oHistoryImage = "none"
                       THEN Return(functionCall, PlainResponse("noImageText", oLearned))
                       ELSE IF oHistoryImage = "invalid"
                         THEN Await("awaitFinal", functionCall, oRounds, oLearned,
                                    "none", FALSE,
                                    Append(oExchange,
                                           FunctionResponse("editImage", "error",
                                                            "error.message")),
                                    oDispatched)
                         ELSE Await("awaitGeneration", functionCall, oRounds, oLearned,
                                    "none", TRUE, oExchange, oDispatched)
                [] functionCall.name = "generateVideo" ->
                     Await("awaitKeyCheck", functionCall, oRounds, oLearned, "none",
                           TRUE, oExchange, oDispatched)
                [] functionCall.name = "useGoogleMaps" ->
                     Await("awaitLocation", functionCall, oRounds, oLearned, "none",
                           FALSE, oExchange, oDispatched)
                [] functionCall.name = "useGoogleSearch" ->
                     Await("awaitGrounding", functionCall, oRounds, oLearned, "none",
                           FALSE, oExchange, oDispatched)
                [] OTHER ->
                     ExecuteTool(functionCall.name, functionCall.toolArgs, oConnections,
                                 "awaitReply", functionCall, oRounds, oLearned,
                                 oExchange, oDispatched)

\* the response makes the loop go round once more
LoopsBack(response) ==
    /\ Len(response.functionCalls) > 0
    /\ DispatchedCall(response).name \notin
          {"requestPermission", "generateImage", "editImage", "generateVideo",
           "useGoogleMaps", "useGoogleSearch"}

(***************************************************************************)
(* App: sessions, handleSendMessage, handleConsent                          *)
(***************************************************************************)

\* handleSendMessage invocations explored
MaxSends == 1

\* handleConsent invocations explored
MaxConsents == 2

\* chat sessions explored
MaxSessions == 2

ChatMessage(author, text, image, response, consentGranted) ==
    [author |-> author, text |-> text, image |-> image,
     generatedImage |-> response.generatedImage,
     generatedVideo |-> response.generatedVideo,
     groundingSources |-> response.groundingSources,
     requiresConsent |-> response.requiresConsent,
     consentGranted |-> consentGranted,
     action |-> response.action,
     requiresBillingProject |-> response.requiresBillingProject]

\* the userMessage of handleSendMessage
UserMessage(media) == ChatMessage("user", "prompt", media, NoResponse, FALSE)

\* the aiMessage handleSendMessage builds from the AiResponse
AiMessage(response) == ChatMessage("ai", response.text, "none", response, FALSE)

\* a message with a text only: error messages, the answer after consent
TextMessage(text) == ChatMessage("ai", text, "none", NoResponse, FALSE)

ApprovedMessageTextOnly(m) == [m EXCEPT !.text = "reason+granted"]

\* { ...m, consentGranted: true, text: m.text + acknowledgement }
ApprovedMessage(m) == [m EXCEPT !.consentGranted = TRUE, !.text = "reason+granted"]

SendErrorTextRaw(error) == "error.message"

\* the errorText of the catch block of handleSendMessage
SendErrorText(error) ==
    IF isOverloaded(error) THEN "overloadedText"
    ELSE IF isRateLimited(error) THEN "rateLimitedText"
    ELSE "errorText"

\* the errorText of the catch block of handleConsent
ConsentErrorText(error) ==
    IF isOverloaded(error) THEN "busyText" ELSE "consentErrorText"

\* [...new Set([...prev, ...learnedFacts])]
RECURSIVE AppendNew(_, _)
AppendNew(memory, facts) ==
    IF facts = <<>> THEN memory
    ELSE AppendNew(IF \E i \in 1..Len(memory) : memory[i] = Head(facts)
                     THEN memory ELSE Append(memory, Head(facts)),
                   Tail(facts))

\* [...history].reverse().find(m => m.author === 'user' && m.image)?.image
LastUserImage(messages) ==
    LET withImage == {i \in 1..Len(messages) :
                        messages[i].author = "user" /\ messages[i].image # "none"}
    IN IF withImage = {} THEN "none"
       ELSE messages[CHOOSE i \in withImage : \A k \in withImage : k <= i].image

\* updateActiveChat(updater, chatId); messages is updater(session.messages).
\* A message object is identified by its chat and its position there:
\* messages are never removed from a session nor reordered
updateActiveChatKeepsNewest(sessions, chatId, messages) ==
    IF chatId \in DOMAIN sessions /\ Len(messages) > 0
      THEN [sessions EXCEPT ![chatId] = <<messages[Len(messages)]>>]
      ELSE sessions

updateActiveChat(sessions, chatId, messages) ==
    IF chatId \in DOMAIN sessions
      THEN [sessions EXCEPT ![chatId] = messages]
      ELSE sessions

AppInit ==
    /\ chatSessions = [id \in {1} |-> <<>>]
    /\ activeChatId = 1
    /\ isLoading = FALSE
    /\ connectedAccounts = {}
    /\ userMemory = <<>>
    /\ turn = [kind |-> "none", chatId |-> 0, index |-> 0]
    /\ sends = 0
    /\ granted = {}
    /\ consumed = <<>>
    /\ isProjectKeyNeeded = FALSE

NoTurn == [kind |-> "none", chatId |-> 0, index |-> 0]

\* chunks splitTextIntoChunks makes of the texts the handlers speak
ChunksSpoken == 1

\* !requiresConsent && !generatedImage && !generatedVideo && !requiresBillingProject
Speakable(response) ==
    /\ ~response.requiresConsent
    /\ ~response.generatedImage
    /\ response.generatedVideo = "none"
    /\ ~response.requiresBillingProject

TurnChatCurrent == activeChatId

\* the chatId updateActiveChat takes by default in a handler: activeChatId of
\* the render the handler was created in, the one that began the turn
TurnChat == turn.chatId

\* the rest of handleSendMessage / handleConsent once the awaited service call
\* has returned or thrown; nothing while the call is still awaiting, and
\* nothing when the service was not called by a handler
Continuation ==
    IF turn.kind = "none" \/ oPc' \notin {"returned", "raised"}
      THEN UNCHANGED <<appVars, speechVars>>
      ELSE LET message ==
                 IF oPc' = "returned"
                   THEN IF turn.kind = "send"
                          THEN AiMessage(oResponse')
                          ELSE TextMessage(oResponse'.text)
                   ELSE IF turn.kind = "send"
                          THEN TextMessage(SendErrorText(oError'))
                          ELSE TextMessage(ConsentErrorText(oError'))
               prev == IF TurnChat \in DOMAIN chatSessions
                         THEN chatSessions[TurnChat] ELSE <<>>
           IN /\ chatSessions' = updateActiveChat(chatSessions, TurnChat,
                                                  Append(prev, message))
              /\ userMemory' = IF oPc' = "returned" /\ turn.kind = "send"
                                 THEN AppendNew(userMemory, oResponse'.learnedFacts)
                                 ELSE userMemory
              /\ isLoading' = FALSE
              /\ turn' = NoTurn
              /\ turnOpen' = FALSE
              /\ IF oPc' = "returned" /\ turn.kind = "send" /\ ~Speakable(oResponse')
                   THEN NoSpeech
                   ELSE playAiSpeech(ChunksSpoken)
              /\ isProjectKeyNeeded' =
                    IF oPc' = "returned" /\ turn.kind = "send"
                         /\ oResponse'.requiresBillingProject
                      THEN TRUE ELSE isProjectKeyNeeded
              /\ UNCHANGED <<activeChatId, connectedAccounts, sends, granted, consumed>>

OrchFrame == UNCHANGED <<retryVars, pureVars, liveVars>>

\* getAiResponse(prompt, media, options, history, connections, userMemory),
\* through its first chat.sendMessage
getAiResponse(connections, historyImage) ==
    /\ oFn' = "respond"
    /\ oConnections' = connections
    /\ oHistoryImage' = historyImage
    /\ oAction' = NoAction
    /\ oResponseCalls' = <<>>
    /\ Await("awaitReply", NoCall, 0, <<>>, "none", FALSE, <<UserParts>>, <<>>)

\* getAiResponseAfterConsent(action, history, connections), through executeTool
getAiResponseAfterConsent(action, connections) ==
    /\ oFn' = "afterConsent"
    /\ oConnections' = connections
    /\ oHistoryImage' = "none"
    /\ oAction' = action
    /\ oResponseCalls' = <<>>
    /\ ExecuteTool(action.toolName, action.toolArgs, connections, "consentReply",
                   FunctionCall(action.toolName, "", action.toolArgs, ""),
                   0, <<>>, <<>>, <<>>)

\* chat.sendMessage of the loop resolves with response
ChatReplies(response) ==
    /\ oFn = "respond"
    /\ oPc = "awaitReply"
    /\ oRounds < MaxRounds \/ ~LoopsBack(response)
    /\ LoopBody(response)
    /\ oResponseCalls' = response.functionCalls
    /\ UNCHANGED <<oFn, oConnections, oHistoryImage, oAction>>
    /\ Continuation
    /\ OrchFrame

\* chat.sendMessage of the loop resolves, whatever the number of round trips
\* so far: the while loop has no iteration limit.  Past MaxRounds round trips
\* the rememberFact round trips are followed and the logs of the call
\* (oRounds, oLearned, oExchange) no longer record them
ChatRepliesAnyRound(response) ==
    /\ oFn = "respond"
    /\ oPc = "awaitReply"
    /\ IF oRounds < MaxRounds \/ ~LoopsBack(response)
         THEN LoopBody(response)
         ELSE /\ DispatchedCall(response).name = "rememberFact"
              /\ oCall' = DispatchedCall(response)
              /\ UNCHANGED <<oPc, oRounds, oLearned, oMedia, oInTry, oExchange,
                             oDispatched, oResponse, oError>>
    /\ oResponseCalls' = response.functionCalls
    /\ UNCHANGED <<oFn, oConnections, oHistoryImage, oAction>>
    /\ Continuation
    /\ OrchFrame

\* a chat.sendMessage outside any try block is given up by retryWithBackoff
ChatRejects(error) ==
    /\ oPc \in {"awaitReply", "consentReply"} \/ (oPc = "awaitFinal" /\ ~oInTry)
    /\ Raise(error)
    /\ OrchArgsUnchanged
    /\ Continuation
    /\ OrchFrame

\* the handler awaited by executeTool settles; the envelope is sent
ToolSettles(ok) ==
    /\ oPc = "awaitTool"
    /\ Await(IF oFn = "respond" THEN "awaitReply" ELSE "consentReply", oCall,
             oRounds + 1, oLearned, "none", FALSE,
             Append(oExchange, ToolEnvelope(oCall.name, ok)), oDispatched)
    /\ OrchArgsUnchanged
    /\ Continuation
    /\ OrchFrame

\* window.aistudio.hasSelectedApiKey() settles (selected also stands for a
\* page without window.aistudio)
KeyCheckSettles(outcome) ==
    /\ oPc = "awaitKeyCheck"
    /\ CASE outcome = "selected" ->
              Await("awaitGeneration", oCall, oRounds, oLearned, "none", TRUE,
                    oExchange, oDispatched)
         [] outcome = "notSelected" ->
              Return(oCall, BillingResponse("billingVideoText", oLearned))
         [] OTHER -> CatchGeneration(NoError)
    /\ OrchArgsUnchanged
    /\ Continuation
    /\ OrchFrame

\* generateImages / generateContent (edit) / generateVideos resolves; hasData
\* tells whether the result holds the image asked for
GenerationResolves(hasData) ==
    /\ oPc = "awaitGeneration"
    /\ hasData \/ oCall.name # "generateVideo"
    /\ IF hasData
         THEN Await("awaitFinal", oCall, oRounds, oLearned,
                    IF oCall.name = "generateVideo" THEN "video" ELSE "image", TRUE,
                    Append(oExchange, FunctionResponse(oCall.name, "result", "")),
                    oDispatched)
         ELSE CatchGeneration(NoError)
    /\ OrchArgsUnchanged
    /\ Continuation
    /\ OrchFrame

\* the generation call is given up by retryWithBackoff
GenerationRejects(error) ==
    /\ oPc = "awaitGeneration"
    /\ CatchGeneration(error)
    /\ OrchArgsUnchanged
    /\ Continuation
    /\ OrchFrame

\* the chat.sendMessage that follows a generation resolves: the branch returns
FinalReplies(response) ==
    /\ oPc = "awaitFinal"
    /\ Return(oCall, MediaResponse(response.text, oMedia, oLearned))
    /\ OrchArgsUnchanged
    /\ Continuation
    /\ OrchFrame

\* the chat.sendMessage inside the try block of a generation branch is given
\* up by retryWithBackoff: the catch block of the branch runs
FinalRejectsInTry(error) ==
    /\ oPc = "awaitFinal"
    /\ oInTry
    /\ CatchGeneration(error)
    /\ OrchArgsUnchanged
    /\ Continuation
    /\ OrchFrame

\* getUserLocation() of the maps branch settles
LocationSettles ==
    /\ oPc = "awaitLocation"
    /\ Await("awaitGrounding", oCall, oRounds, oLearned, "none", FALSE, oExchange,
             oDispatched)
    /\ OrchArgsUnchanged
    /\ Continuation
    /\ OrchFrame

\* the single-turn grounded generateContent resolves
GroundingResolves(chunks) ==
    /\ oPc = "awaitGrounding"
    /\ Return(oCall, GroundedResponse("modelText", chunks, oLearned))
    /\ OrchArgsUnchanged
    /\ Continuation
    /\ OrchFrame

\* the single-turn grounded generateContent is given up by retryWithBackoff
GroundingRejects(error) ==
    /\ oPc = "awaitGrounding"
    /\ Raise(error)
    /\ OrchArgsUnchanged
    /\ Continuation
    /\ OrchFrame

\* chat.sendMessage of getAiResponseAfterConsent resolves
ConsentReplies(response) ==
    /\ oFn = "afterConsent"
    /\ oPc = "consentReply"
    /\ Return(oCall, PlainResponse(response.text, <<>>))
    /\ OrchArgsUnchanged
    /\ Continuation
    /\ OrchFrame

\* the service called on its own: getAiResponse
Respond(connections, historyImage) ==
    /\ oPc \in {"idle", "returned", "raised"}
    /\ getAiResponse(connections, historyImage)
    /\ UNCHANGED <<appVars, speechVars>>
    /\ OrchFrame

\* the service called on its own: getAiResponseAfterConsent with the action
\* of the consent request the previous getAiResponse returned
RespondAfterConsent(connections) ==
    /\ oPc = "returned"
    /\ oFn = "respond"
    /\ oResponse.requiresConsent
    /\ getAiResponseAfterConsent(oResponse.action, connections)
    /\ UNCHANGED <<appVars, speechVars>>
    /\ OrchFrame

InputBarAcceptsAlways == TRUE

\* handleSubmit of the InputBar hands the submit to onSendMessage only when
\* its prop isLoading is false
InputBarAccepts == ~isLoading

\* handleSendMessage(text, media), submitted through the InputBar (which
\* ignores the submit while isLoading), up to the await of getAiResponse.
\* MaxSends bounds the turns begun while the application is at rest
handleSendMessage(media) ==
    /\ InputBarAccepts
    /\ activeChatId \in DOMAIN chatSessions
    /\ sends < MaxSends \/ isLoading
    /\ HandlerStopsAudio
    /\ chatSessions' = updateActiveChat(chatSessions, activeChatId,
                          Append(chatSessions[activeChatId], UserMessage(media)))
    /\ isLoading' = TRUE
    /\ turn' = [kind |-> "send", chatId |-> activeChatId, index |-> 0]
    /\ sends' = sends + 1
    /\ getAiResponse(connectedAccounts, LastUserImage(chatSessions[activeChatId]))
    /\ UNCHANGED <<activeChatId, connectedAccounts, userMemory, granted, consumed,
                   isProjectKeyNeeded>>
    /\ OrchFrame

\* the consent button ChatInterface renders under message i of the active
\* chat, and whether it can be clicked
ConsentButtonEnabled(i) ==
    /\ activeChatId \in DOMAIN chatSessions
    /\ i \in 1..Len(chatSessions[activeChatId])
    /\ chatSessions[activeChatId][i].author = "ai"
    /\ chatSessions[activeChatId][i].requiresConsent
    /\ ~chatSessions[activeChatId][i].consentGranted
    /\ ~isLoading

\* handleConsent(messageToApprove), for a click on the consent button of
\* message i of the active chat, up to the await of getAiResponseAfterConsent
handleConsent(i) ==
    /\ ConsentButtonEnabled(i)
    /\ Len(consumed) < MaxConsents
    /\ HandlerStopsAudio
    /\ LET messageToApprove == chatSessions[activeChatId][i]
       IN /\ messageToApprove.action # NoAction
          /\ chatSessions' = updateActiveChat(chatSessions, activeChatId,
                                [chatSessions[activeChatId] EXCEPT
                                    ![i] = ApprovedMessage(messageToApprove)])
          /\ turn' = [kind |-> "consent", chatId |-> activeChatId, index |-> i]
          /\ granted' = granted \cup {messageToApprove.action.toolName}
          /\ consumed' = Append(consumed, <<activeChatId, i>>)
          /\ getAiResponseAfterConsent(messageToApprove.action, connectedAccounts)
    /\ isLoading' = TRUE
    /\ UNCHANGED <<activeChatId, connectedAccounts, userMemory, sends, isProjectKeyNeeded>>
    /\ OrchFrame

\* handleNewChat
handleNewChat ==
    /\ Cardinality(DOMAIN chatSessions) < MaxSessions
    /\ LET id == Cardinality(DOMAIN chatSessions) + 1
       IN /\ chatSessions' = [s \in DOMAIN chatSessions \cup {id} |->
                                 IF s = id THEN <<>> ELSE chatSessions[s]]
          /\ activeChatId' = id
    /\ UNCHANGED <<isLoading, connectedAccounts, userMemory, turn, sends,
                   granted, consumed, isProjectKeyNeeded>>
    /\ UNCHANGED <<orchVars, speechVars>>
    /\ OrchFrame

\* handleSelectChat(id)
handleSelectChat(id) ==
    /\ id \in DOMAIN chatSessions
    /\ id # activeChatId
    /\ activeChatId' = id
    /\ UNCHANGED <<chatSessions, isLoading, connectedAccounts, userMemory, turn,
                   sends, granted, consumed, isProjectKeyNeeded>>
    /\ UNCHANGED <<orchVars, speechVars>>
    /\ OrchFrame

\* handleToggleIntegration('email', accountId)
handleToggleIntegration(accountId) ==
    /\ connectedAccounts' = IF accountId \in connectedAccounts
                               THEN connectedAccounts \ {accountId}
                               ELSE connectedAccounts \cup {accountId}
    /\ UNCHANGED <<chatSessions, activeChatId, isLoading, userMemory, turn, sends,
                   granted, consumed, isProjectKeyNeeded>>
    /\ UNCHANGED <<orchVars, speechVars>>
    /\ OrchFrame

\* initializeApp of the mount effect: hasSelectedApiKey() resolves with false
\* when the application starts, before any message exists
InitializeApp ==
    /\ ~isProjectKeyNeeded
    /\ sends = 0
    /\ \A c \in DOMAIN chatSessions : chatSessions[c] = <<>>
    /\ isProjectKeyNeeded' = TRUE
    /\ UNCHANGED <<chatSessions, activeChatId, isLoading, connectedAccounts, userMemory,
                   turn, sends, granted, consumed>>
    /\ UNCHANGED <<orchVars, speechVars>>
    /\ OrchFrame

\* handleSelectProjectKey, for a click on the project button (shown while
\* isProjectKeyNeeded), once openSelectKey() has resolved: the note goes to
\* chatId, the session that was active at the click, whichever session is
\* active by now
handleSelectProjectKey(chatId) ==
    /\ isProjectKeyNeeded
    /\ chatId \in DOMAIN chatSessions
    /\ isProjectKeyNeeded' = FALSE
    /\ chatSessions' = updateActiveChat(chatSessions, chatId,
                          Append(chatSessions[chatId], TextMessage("projectConfiguredText")))
    /\ UNCHANGED <<activeChatId, isLoading, connectedAccounts, userMemory, turn, sends,
                   granted, consumed>>
    /\ UNCHANGED <<orchVars, speechVars>>
    /\ OrchFrame

\* the model's answers explored together with the turn handlers
AppCalls ==
    { FunctionCall("requestPermission", "getEmails",
                   ObjectArgs({"work@example.com"}), ""),
      FunctionCall("requestPermission", "generateImage", UndefinedArgs, ""),
      FunctionCall("rememberFact", "", ObjectArgs({}), "f1"),
      FunctionCall("getEmails", "", ObjectArgs({}), "") }

AppReplies == {TextReply} \cup {CallReply(c) : c \in AppCalls}

AppErrors ==
    {e \in ErrorShapes : e.status \in {503, 429} \/ (e.status = 0 /\ e.code = 0)}

OrchNext ==
    \/ \E c \in SUBSET Accounts, h \in {"none", "valid", "invalid"} : Respond(c, h)
    \/ \E c \in SUBSET Accounts : RespondAfterConsent(c)
    \/ \E r \in LoopReplies : ChatReplies(r)
    \/ \E e \in ErrorShapes : ChatRejects(e)
    \/ \E ok \in BOOLEAN : ToolSettles(ok)
    \/ \E o \in {"selected", "notSelected", "throws"} : KeyCheckSettles(o)
    \/ \E d \in BOOLEAN : GenerationResolves(d)
    \/ \E e \in ErrorShapes : GenerationRejects(e)
    \/ \E r \in Replies : FinalReplies(r)
    \/ \E e \in ErrorShapes : FinalRejectsInTry(e)
    \/ LocationSettles
    \/ \E g \in GroundingChunkLists : GroundingResolves(g)
    \/ \E e \in ErrorShapes : GroundingRejects(e)
    \/ \E r \in Replies : ConsentReplies(r)

OrchLoopNext ==
    \/ OrchNext
    \/ \E r \in Replies : ChatRepliesAnyRound(r)

Next ==
    \/ \E media \in {"none"} : handleSendMessage(media)
    \/ \E i \in 1..(2 * MaxSends + MaxConsents) : handleConsent(i)
    \/ handleNewChat
    \/ \E id \in 1..MaxSessions : handleSelectChat(id)
    \/ \E a \in Accounts : handleToggleIntegration(a)
    \/ \E r \in AppReplies : ChatReplies(r)
    \/ \E e \in AppErrors : ChatRejects(e)
    \/ \E ok \in BOOLEAN : ToolSettles(ok)
    \/ \E r \in AppReplies : ConsentReplies(r)

\* the operations that write to the message lists, with the project button
SessionNext ==
    \/ \E media \in {"none"} : handleSendMessage(media)
    \/ \E i \in 1..(2 * MaxSends + MaxConsents + 1) : handleConsent(i)
    \/ InitializeApp
    \/ \E id \in 1..MaxSessions : handleSelectProjectKey(id)
    \/ handleNewChat
    \/ \E id \in 1..MaxSessions : handleSelectChat(id)
    \/ \E r \in AppReplies : ChatReplies(r)
    \/ \E e \in AppErrors : ChatRejects(e)
    \/ \E ok \in BOOLEAN : ToolSettles(ok)
    \/ \E r \in AppReplies : ConsentReplies(r)


(***************************************************************************)
(* Pure functions: formatHistoryForApi                                     *)
(***************************************************************************)

\* longest history formatted
MaxHistory == 33

\* longest run of assistant messages put at the start of the retained window
MaxLeadingAi == 3

MAX_HISTORY_LENGTH == 30

PureFrame == UNCHANGED <<retryVars, speechVars, orchVars, appVars, liveVars>>

PureInit ==
    /\ fHistory = <<>>
    /\ fOutput = <<>>
    /\ sPrompt = <<>>
    /\ sMedia = "none"
    /\ sModel = ""
    /\ sThinking = 0
    /\ cText = <<>>
    /\ cChunks = <<>>

\* no function has been applied yet: one application is observed at a time
NoPureCall == PureInit

\* getMediaPart(dataUrl): the inlineData part, or null when the data URL does
\* not match; called for a non-empty field only
getMediaPart(dataUrl) ==
    IF dataUrl = "valid" THEN <<[kind |-> "inlineData", text |-> ""]>> ELSE <<>>

\* the parts collected for a message: its text, then its media
MessageParts(message) ==
    (IF message.text # "" THEN <<[kind |-> "text", text |-> message.text]>> ELSE <<>>)
    \o (IF message.image # "none" THEN getMediaPart(message.image) ELSE <<>>)

\* the functionCall part that stands for a consent request; text is
\* args.reason
FunctionCallPart(message) ==
    [kind |-> "functionCall", text |-> message.text, name |-> "requestPermission",
     toolToCall |-> message.action.toolName, toolArgs |-> message.action.toolArgs]

MessageContentPlain(message) ==
    IF message.author = "user"
      THEN <<[role |-> "user", parts |-> MessageParts(message)]>>
      ELSE IF Len(MessageParts(message)) > 0
        THEN <<[role |-> "model", parts |-> MessageParts(message)]>>
        ELSE <<>>

\* the Content entries pushed for one message, none or one
MessageContent(message) ==
    IF message.author = "user"
      THEN <<[role |-> "user", parts |-> MessageParts(message)]>>
      ELSE IF message.requiresConsent /\ message.action # NoAction
        THEN <<[role |-> "model", parts |-> <<FunctionCallPart(message)>>]>>
        ELSE IF Len(MessageParts(message)) > 0
          THEN <<[role |-> "model", parts |-> MessageParts(message)]>>
          ELSE <<>>

PrunedOneMore(history) ==
    IF Len(history) > MAX_HISTORY_LENGTH
      THEN SubSeq(history, Len(history) - MAX_HISTORY_LENGTH, Len(history))
      ELSE history

\* processingHistory after the slice to the last MAX_HISTORY_LENGTH messages
Pruned(history) ==
    IF Len(history) > MAX_HISTORY_LENGTH
      THEN SubSeq(history, Len(history) - MAX_HISTORY_LENGTH + 1, Len(history))
      ELSE history

\* processingHistory after the shift of one leading assistant message
ShiftLeadingAi(processingHistory) ==
    IF Len(processingHistory) > 0 /\ processingHistory[1].author = "ai"
      THEN Tail(processingHistory)
      ELSE processingHistory

RECURSIVE ApiHistoryUnshift(_)
ApiHistoryUnshift(processingHistory) ==
    IF processingHistory = <<>> THEN <<>>
    ELSE ApiHistoryUnshift(Tail(processingHistory)) \o MessageContent(Head(processingHistory))

\* apiHistory after the loop over processingHistory: one push at most per
\* message, in the order of the messages
RECURSIVE ApiHistory(_)
ApiHistory(processingHistory) ==
    IF processingHistory = <<>> THEN <<>>
    ELSE MessageContent(Head(processingHistory)) \o ApiHistory(Tail(processingHistory))

formatHistoryForApi(history) == ApiHistory(ShiftLeadingAi(Pruned(history)))

\* the assistant messages a session can hold: a text, an empty text (a reply
\* without text), a consent request
AiKinds == {"text", "empty", "consent"}

\* message i of a history
HistoryMessage(i, author, aiKind) ==
    IF author = "user"
      THEN [UserMessage("none") EXCEPT !.text = ToString(i)]
      ELSE IF aiKind = "consent"
        THEN [AiMessage(ConsentResponse(
                          FunctionCall("requestPermission", "getEmails",
                                       UndefinedArgs, ""), <<>>))
                EXCEPT !.text = ToString(i)]
        ELSE TextMessage(IF aiKind = "empty" THEN "" ELSE ToString(i))

\* a history of n messages: those older than the window are written by
\* oldAuthor, the window starts with lead assistant messages, then user and
\* assistant alternate
History(n, lead, aiKind, oldAuthor) ==
    LET old == IF n > MAX_HISTORY_LENGTH THEN n - MAX_HISTORY_LENGTH ELSE 0
    IN [i \in 1..n |->
          HistoryMessage(i,
                         IF i <= old THEN oldAuthor
                         ELSE IF i <= old + lead THEN "ai"
                         ELSE IF (i - old - lead) % 2 = 1 THEN "user" ELSE "ai",
                         aiKind)]

\* formatHistoryForApi(history) is called
FormatHistory(n, lead, aiKind, oldAuthor) ==
    /\ NoPureCall
    /\ fHistory' = History(n, lead, aiKind, oldAuthor)
    /\ fOutput' = formatHistoryForApi(fHistory')
    /\ sPrompt' = <<>>
    /\ sMedia' = "none"
    /\ sModel' = ""
    /\ sThinking' = 0
    /\ UNCHANGED <<cText, cChunks>>
    /\ PureFrame

(***************************************************************************)
(* Pure functions: selectModel                                             *)
(***************************************************************************)

\* longest prompt, in characters
MaxPromptLen == 6

\* the characters of a prompt: a letter, a space, and one character that
\* stands for an occurrence of a complexKeywords entry, in lower case ("k")
\* or with capitals ("K")
PromptChars == {"x", " ", "k", "K"}

Prompts == SeqsUpTo(PromptChars, MaxPromptLen)

MediaTypes == {"none", "image", "video", "audio"}

\* prompt.toLowerCase()
toLowerCase(prompt) ==
    [i \in 1..Len(prompt) |-> IF prompt[i] = "K" THEN "k" ELSE prompt[i]]

\* complexKeywords.some(kw => text.includes(kw))
IncludesKeyword(text) == \E i \in 1..Len(text) : text[i] = "k"

\* prompt.split(' ').length
SplitLength(prompt) == Cardinality({i \in 1..Len(prompt) : prompt[i] = " "}) + 1

selectModel(prompt, media) ==
    IF media = "video" \/ media = "audio" THEN "gemini-2.5-pro"
    ELSE IF IncludesKeyword(toLowerCase(prompt)) THEN "gemini-2.5-pro"
    ELSE IF SplitLength(prompt) <= 3 THEN "gemini-2.5-flash-lite"
    ELSE "gemini-2.5-flash"

\* config.thinkingConfig.thinkingBudget for modelName
ThinkingBudget(modelName) == IF modelName = "gemini-2.5-pro" THEN 32768 ELSE 0

\* getAiResponse selects the model and builds the config
SelectModel(prompt, media) ==
    /\ NoPureCall
    /\ sPrompt' = prompt
    /\ sMedia' = media
    /\ sModel' = selectModel(prompt, media)
    /\ sThinking' = ThinkingBudget(sModel')
    /\ fHistory' = <<>>
    /\ fOutput' = <<>>
    /\ UNCHANGED <<cText, cChunks>>
    /\ PureFrame

(***************************************************************************)
(* Pure functions: splitTextIntoChunks                                     *)
(***************************************************************************)

\* longest text split, in characters
MaxTextLen == 5

\* the characters of a text: a letter, a space, "." for any of the sentence
\* delimiters . ! ? (the expression treats the three alike), and the asterisk
TextChars == {"a", " ", ".", "*"}

Texts == SeqsUpTo(TextChars, MaxTextLen)

\* [.!?]
Delimiters == {"."}

\* [^.!?]
NonDelimiters == TextChars \ Delimiters

\* \s
Whitespace == {" "}

NotAsterisk(c) == c # "*"

\* text.replace(/\*{1,2}/g, '')
StripEmphasis(text) == SelectSeq(text, NotAsterisk)

\* the position after the longest run of characters of class that starts at
\* pos: a greedy quantifier; giving back characters never helps the match
\* here, since what follows a class in the expression excludes that class
EndOfRun(str, pos, class) ==
    LET stops == {k \in pos..Len(str) : str[k] \notin class}
    IN IF stops = {} THEN Len(str) + 1
       ELSE CHOOSE k \in stops : \A j \in stops : k <= j

\* the length of the match of /[^.!?]+[.!?]+(\s+|$)|[^.!?]+$/ at pos, 0 for none
MatchAt(str, pos) ==
    LET a == EndOfRun(str, pos, NonDelimiters)
        b == EndOfRun(str, a, Delimiters)
        c == EndOfRun(str, b, Whitespace)
    IN IF a > pos /\ b > a /\ (c > b \/ b = Len(str) + 1) THEN c - pos
       ELSE IF a > pos /\ a = Len(str) + 1 THEN a - pos
       ELSE 0

\* str.match(/.../g) from pos on: the successive matches; a position without
\* match is skipped
RECURSIVE Matches(_, _)
Matches(str, pos) ==
    IF pos > Len(str) THEN <<>>
    ELSE LET n == MatchAt(str, pos)
         IN IF n = 0 THEN Matches(str, pos + 1)
            ELSE <<SubSeq(str, pos, pos + n - 1)>> \o Matches(str, pos + n)

\* s.trim()
RECURSIVE trim(_)
trim(str) ==
    IF str = <<>> THEN <<>>
    ELSE IF Head(str) \in Whitespace THEN trim(Tail(str))
    ELSE IF str[Len(str)] \in Whitespace THEN trim(SubSeq(str, 1, Len(str) - 1))
    ELSE str

NonEmpty(str) == Len(str) > 0

\* splitTextIntoChunks(text)
splitTextIntoChunks(text) ==
    LET cleanText == StripEmphasis(text)
        result == Matches(cleanText, 1)
    IN IF result = <<>> THEN <<cleanText>>
       ELSE SelectSeq([i \in 1..Len(result) |-> trim(result[i])], NonEmpty)

\* playAiSpeech splits the text it is to speak
SplitText(text) ==
    /\ NoPureCall
    /\ cText' = text
    /\ cChunks' = splitTextIntoChunks(text)
    /\ UNCHANGED <<fHistory, fOutput, sPrompt, sMedia, sModel, sThinking>>
    /\ PureFrame

PureNext ==
    \/ /\ NoPureCall
       /\ \E n \in 0..MaxHistory, lead \in 0..MaxLeadingAi, k \in AiKinds,
             old \in {"user", "ai"} : FormatHistory(n, lead, k, old)
    \/ /\ NoPureCall
       /\ \E prompt \in Prompts, media \in MediaTypes : SelectModel(prompt, media)
    \/ /\ NoPureCall
       /\ \E text \in Texts : SplitText(text)


(***************************************************************************)
(* LiveConversationModal: startConversation, stopConversation              *)
(***************************************************************************)

\* times the modal is opened
MaxLiveStarts == 2

\* entries of the transcription explored
MaxTranscript == 2

LiveFrame == UNCHANGED <<retryVars, speechVars, orchVars, appVars, pureVars>>

LiveInit ==
    /\ liveOpen = FALSE
    /\ liveStatus = "disconnected"
    /\ liveErrorText = ""
    /\ transcription = <<>>
    /\ livePc = "idle"
    /\ liveSession = "none"
    /\ liveSessionRef = FALSE
    /\ liveCurrent = [input |-> FALSE, output |-> FALSE]
    /\ liveStarts = 0
    /\ liveConnects = 0
    /\ liveConnectError = NoError

\* stopConversation(): the session held by the ref is closed
SessionAfterStop ==
    IF liveSessionRef /\ liveSession = "open" THEN "closed" ELSE liveSession

\* the modal is opened: the effect calls startConversation(), which runs up
\* to the await of getUserMedia; one startConversation in flight is explored
OpenModal ==
    /\ ~liveOpen
    /\ livePc \notin {"media", "connect"}
    /\ liveStarts < MaxLiveStarts
    /\ liveOpen' = TRUE
    /\ liveStatus' = "connecting"
    /\ liveErrorText' = ""
    /\ transcription' = <<>>
    /\ livePc' = "media"
    /\ liveCurrent' = [input |-> FALSE, output |-> FALSE]
    /\ liveStarts' = liveStarts + 1
    /\ liveConnects' = 0
    /\ liveConnectError' = NoError
    /\ UNCHANGED <<liveSession, liveSessionRef>>
    /\ LiveFrame

\* the modal is closed (handleClose, or isOpen turning false): the cleanup of
\* the effect calls stopConversation()
CloseModal ==
    /\ liveOpen
    /\ liveOpen' = FALSE
    /\ liveSession' = SessionAfterStop
    /\ liveSessionRef' = FALSE
    /\ liveStatus' = "disconnected"
    /\ UNCHANGED <<liveErrorText, transcription, livePc, liveCurrent, liveStarts,
                   liveConnects, liveConnectError>>
    /\ LiveFrame

\* getUserMedia resolves: ai.live.connect(...) is called, once, directly
GetUserMediaResolves ==
    /\ livePc = "media"
    /\ livePc' = "connect"
    /\ liveConnects' = liveConnects + 1
    /\ UNCHANGED <<liveOpen, liveStatus, liveErrorText, transcription, liveSession,
                   liveSessionRef, liveCurrent, liveStarts, liveConnectError>>
    /\ LiveFrame

\* getUserMedia rejects: the catch block of startConversation
GetUserMediaRejects(notAllowed) ==
    /\ livePc = "media"
    /\ livePc' = "failed"
    /\ liveErrorText' = IF notAllowed THEN "microphoneDeniedText" ELSE "noMicrophoneText"
    /\ liveStatus' = "error"
    /\ UNCHANGED <<liveOpen, transcription, liveSession, liveSessionRef, liveCurrent,
                   liveStarts, liveConnects, liveConnectError>>
    /\ LiveFrame

\* ai.live.connect resolves: onopen has run, the session is stored in the ref
ConnectResolves ==
    /\ livePc = "connect"
    /\ livePc' = "session"
    /\ liveStatus' = "connected"
    /\ liveSession' = "open"
    /\ liveSessionRef' = TRUE
    /\ UNCHANGED <<liveOpen, liveErrorText, transcription, liveCurrent, liveStarts,
                   liveConnects, liveConnectError>>
    /\ LiveFrame

\* ai.live.connect rejects with error: the catch block of startConversation
ConnectRejects(error) ==
    /\ livePc = "connect"
    /\ livePc' = "failed"
    /\ liveConnectError' = error
    /\ liveErrorText' = "noMicrophoneText"
    /\ liveStatus' = "error"
    /\ UNCHANGED <<liveOpen, transcription, liveSession, liveSessionRef, liveCurrent,
                   liveStarts, liveConnects>>
    /\ LiveFrame

\* onmessage with a piece of transcription
OnTranscription(side) ==
    /\ liveSession = "open"
    /\ liveCurrent' = [liveCurrent EXCEPT ![side] = TRUE]
    /\ UNCHANGED <<liveOpen, liveStatus, liveErrorText, transcription, livePc,
                   liveSession, liveSessionRef, liveStarts, liveConnects,
                   liveConnectError>>
    /\ LiveFrame

\* onmessage with turnComplete
OnTurnComplete ==
    /\ liveSession = "open"
    /\ Len(transcription) + 2 <= MaxTranscript
    /\ transcription' = transcription
                          \o (IF liveCurrent.input THEN <<"user">> ELSE <<>>)
                          \o (IF liveCurrent.output THEN <<"ai">> ELSE <<>>)
    /\ liveCurrent' = [input |-> FALSE, output |-> FALSE]
    /\ UNCHANGED <<liveOpen, liveStatus, liveErrorText, livePc, liveSession,
                   liveSessionRef, liveStarts, liveConnects, liveConnectError>>
    /\ LiveFrame

\* onerror: the error is shown, then stopConversation() runs
OnError ==
    /\ liveSession = "open"
    /\ liveErrorText' = "connectionErrorText"
    /\ liveSession' = "closed"
    /\ liveSessionRef' = FALSE
    /\ liveStatus' = "disconnected"
    /\ UNCHANGED <<liveOpen, transcription, livePc, liveCurrent, liveStarts,
                   liveConnects, liveConnectError>>
    /\ LiveFrame

\* onclose, the server having closed the session
OnClose ==
    /\ liveSession = "open"
    /\ liveSession' = "closed"
    /\ liveStatus' = "disconnected"
    /\ UNCHANGED <<liveOpen, liveErrorText, transcription, livePc, liveSessionRef,
                   liveCurrent, liveStarts, liveConnects, liveConnectError>>
    /\ LiveFrame

LiveNext ==
    \/ OpenModal
    \/ CloseModal
    \/ GetUserMediaResolves
    \/ \E notAllowed \in BOOLEAN : GetUserMediaRejects(notAllowed)
    \/ ConnectResolves
    \/ \E e \in ErrorShapes : ConnectRejects(e)
    \/ \E side \in {"input", "output"} : OnTranscription(side)
    \/ OnTurnComplete
    \/ OnError
    \/ OnClose

(***************************************************************************)
(* Specifications                                                          *)
(***************************************************************************)

Init == RetryInit /\ SpeechInit /\ OrchInit /\ AppInit /\ PureInit /\ LiveInit

RetrySpec == Init /\ [][RetryNext]_vars

SpeechSpec == Init /\ [][SpeechNext]_vars

\* every getAiSpeech call returns, every playAudio gets past its decoding or
\* throws, and every source started gets its ended event
SpeechFairness ==
    /\ \A j \in 1..SpeechMaxTurns : WF_vars(\E ok \in BOOLEAN : SynthReturns(j, ok))
    /\ \A j \in 1..SpeechMaxTurns : WF_vars(PlayAudioStarts(j) \/ PlayAudioFails(j))
    /\ \A k \in 1..(SpeechMaxTurns * SpeechMaxChunks) : WF_vars(SourceOnEnded(k))

SpeechLiveSpec == SpeechSpec /\ SpeechFairness

OrchSpec == Init /\ [][OrchNext]_vars

SessionSpec == Init /\ [][SessionNext]_vars

\* every awaited call settles
OrchLoopSpec == Init /\ [][OrchLoopNext]_vars /\ WF_vars(OrchLoopNext)

Spec == Init /\ [][Next]_vars

PureSpec == Init /\ [][PureNext]_vars

LiveSpec == Init /\ [][LiveNext]_vars

(***************************************************************************)
(* Claims                                                                  *)
(***************************************************************************)

AllTransient(errs) == \A i \in 1..Len(errs) : IsTransient(errs[i])

\* C1: an operation that fails with a transient error on every call is
\* invoked exactly retries+1 times (4 times with the default 3) and the call
\* then raises the error of the last invocation.
C1_RetryBound ==
    /\ (rPc = "raised" /\ AllTransient(rErrs))
          => /\ rCalls = rRetries + 1
             /\ Len(rErrs) = rRetries + 1
             /\ rRaised = rErrs[Len(rErrs)]
    /\ (rPc \in {"calling", "waiting"} /\ AllTransient(rErrs))
          => rCalls <= rRetries + 1

C1_Witness ==
    /\ rPc = "raised"
    /\ rRetries = DefaultRetries
    /\ AllTransient(rErrs)
    /\ rCalls = 4
    /\ rErrs[1] # rErrs[4]

\* the classification the claim describes: by status (or code) 503 / 429 only
StatusTransient(error) ==
    error.status \in {503, 429} \/ error.code \in {503, 429}

\* C2 (as stated): an error without a 503 / 429 status is never retried:
\* the operation is invoked once, no delay is taken, the error propagates.
C2_Original ==
    (Len(rErrs) >= 1 /\ ~StatusTransient(rErrs[1]))
        => (rPc = "raised" /\ rCalls = 1 /\ rDelays = <<>> /\ rRaised = rErrs[1])

\* C2 (amended): an error is transient when its status or code is 503 or 429
\* or its message contains 'overloaded'; for any other error the operation is
\* invoked exactly once, no delay is taken and that error propagates at once.
C2_FatalOnce ==
    /\ \A i \in 1..Len(rErrs) :
          ~IsTransient(rErrs[i])
             => (i = Len(rErrs) /\ rPc = "raised" /\ rRaised = rErrs[i]
                 /\ rCalls = i /\ Len(rDelays) = i - 1)
    /\ (Len(rErrs) >= 1 /\ ~IsTransient(rErrs[1]))
          => (rPc = "raised" /\ rCalls = 1 /\ rDelays = <<>> /\ rRaised = rErrs[1])

C2_Witness ==
    /\ rPc = "raised"
    /\ rRetries = DefaultRetries
    /\ rCalls = 1
    /\ rErrs = << [status |-> 400, code |-> 0, overloadedMsg |-> FALSE, billedUsersMsg |-> FALSE] >>
    /\ rRaised = rErrs[1]
    /\ rDelays = <<>>


\* C3: when the response of the model carries a requestPermission call,
\* getAiResponse returns requiresConsent = TRUE with an action that holds the
\* requested tool name and arguments, and the step that handles the call runs
\* no tool handler and sends nothing more to the model.
C3_ConsentGate ==
    /\ []((oFn = "respond" /\ oPc = "returned" /\ oCall.name = "requestPermission")
            => /\ oResponse.requiresConsent
               /\ oResponse.action # NoAction
               /\ oResponse.action.toolName = oCall.toolToCall
               /\ oResponse.action.toolArgs = OrEmptyObject(oCall.toolArgs))
    /\ [][(oFn = "respond" /\ oPc' = "returned" /\ oCall'.name = "requestPermission")
            => (oDispatched' = oDispatched /\ oExchange' = oExchange)]_vars

C3_Witness ==
    /\ oFn = "respond"
    /\ oPc = "returned"
    /\ oCall.name = "requestPermission"
    /\ oCall.toolToCall = "getEmails"
    /\ oResponse.requiresConsent
    /\ oResponse.action = [toolName |-> "getEmails",
                           toolArgs |-> ObjectArgs({"work@example.com"})]
    /\ oDispatched = <<>>

\* C4: the handler of a privacy-sensitive tool runs only after the user has
\* granted a consent request naming that tool; a direct call of such a tool
\* by the model never makes its handler run.
C4_HandlerOnlyAfterConsent ==
    \A i \in 1..Len(oDispatched) :
        oDispatched[i].tool \in PrivateTools
            => (oFn = "afterConsent" /\ oDispatched[i].tool \in granted)

\* C5: getAiResponseAfterConsent runs the handler of the tool of the action
\* exactly once with the stored arguments, sends one envelope and returns a
\* response made of the text of the reply only.
C5_ExecutesOnce ==
    (oFn = "afterConsent" /\ oPc = "returned")
        => /\ Len(oDispatched) = 1
           /\ oDispatched[1].tool = (IF oAction.toolName = "requestLocation"
                                       THEN "getUserLocation" ELSE oAction.toolName)
           /\ (oAction.toolName # "requestLocation"
                 => oDispatched[1].args = oAction.toolArgs)
           /\ Len(oExchange) = 1
           /\ oResponse = PlainResponse(oResponse.text, <<>>)

\* C6: the action of a consent-request message is consumed at most once:
\* handleConsent never runs twice for the same message, and a message it has
\* run for is marked granted, so that its button is not offered again, be it
\* after a failed attempt or after a change of session.
C6_ConsumedOnce ==
    /\ \A i, j \in 1..Len(consumed) : i # j => consumed[i] # consumed[j]
    /\ \A i \in 1..Len(consumed) :
          /\ consumed[i][1] \in DOMAIN chatSessions
          /\ consumed[i][2] \in 1..Len(chatSessions[consumed[i][1]])
          /\ chatSessions[consumed[i][1]][consumed[i][2]].requiresConsent
          /\ chatSessions[consumed[i][1]][consumed[i][2]].consentGranted

\* the attempt after the grant has failed, the user has opened another
\* session and come back: the button is not offered
C6_Witness ==
    /\ Len(consumed) = 1
    /\ ~isLoading
    /\ Cardinality(DOMAIN chatSessions) = 2
    /\ activeChatId = consumed[1][1]
    /\ LET messages == chatSessions[activeChatId]
       IN /\ messages[Len(messages)].text \in {"busyText", "consentErrorText"}
          /\ \A i \in 1..Len(messages) : ~ConsentButtonEnabled(i)

\* connected scope applied to a requested scope
Sanitized(requested, connected) ==
    IF requested = {} THEN connected ELSE requested \cap connected

\* C7: the accounts the getEmails handler receives are the requested ones
\* sanitized against the connected ones: all connected accounts for an empty
\* request, the intersection otherwise.
C7_ScopeSanitized ==
    (oPc = "awaitTool" /\ oCall.name = "getEmails")
        => oDispatched[Len(oDispatched)].args.accountIds
              = Sanitized(oCall.toolArgs.accountIds, oConnections)

\* the terminal markers a response carries
TerminalMarkers(response) ==
    {m \in {"consent", "billing", "media"} :
        \/ m = "consent" /\ response.requiresConsent
        \/ m = "billing" /\ response.requiresBillingProject
        \/ m = "media" /\ (response.generatedImage \/ response.generatedVideo # "none")}

\* C8: a response returned by getAiResponse carries at most one of
\* requiresConsent, requiresBillingProject and a generated media reference; a
\* grounded response and a response that ends the loop with plain text carry
\* none of them.
C8_OneTerminalShape ==
    (oFn = "respond" /\ oPc = "returned")
        => /\ Cardinality(TerminalMarkers(oResponse)) <= 1
           /\ oResponse.grounded => TerminalMarkers(oResponse) = {}
           /\ oCall.name \notin {"requestPermission", "generateImage", "editImage",
                                 "generateVideo"}
                 => TerminalMarkers(oResponse) = {}
           /\ oResponse.requiresConsent <=> oResponse.action # NoAction

C8_Witness ==
    /\ oFn = "respond"
    /\ oPc = "returned"
    /\ oCall.name = "generateVideo"
    /\ oResponse.generatedVideo = "generating"
    /\ TerminalMarkers(oResponse) = {"media"}

Audible == {k \in 1..Len(sources) : sources[k].state = "playing"}

\* C9: a chunk is started for playback only while the generation id its job
\* captured equals the current generation counter, so no chunk of a job that
\* a later speak or stop has invalidated becomes audible.
C9_OnlyActiveGenerationAudible ==
    \A i \in 1..Len(started) : started[i].genId = started[i].generation

\* C10: at most one audio source is started and not yet stopped or ended.
C10_AtMostOneAudible ==
    Cardinality(Audible) <= 1


\* C11: within a speech job the chunks are synthesized in index order, each
\* once and none skipped; they are played in index order, each at most once
\* and only after their synthesis; the synthesis of a later chunk is not
\* requested while the source of an earlier chunk of the job has not ended;
\* a job that ran to its end has requested every chunk.
C11_ChunksInOrder ==
    /\ \A a, b \in 1..Len(synthLog) :
          (a < b /\ synthLog[a].genId = synthLog[b].genId)
              => synthLog[a].chunk < synthLog[b].chunk
    /\ \A b \in 1..Len(synthLog) :
          synthLog[b].chunk > 0
              => \E a \in 1..(b - 1) : /\ synthLog[a].genId = synthLog[b].genId
                                       /\ synthLog[a].chunk = synthLog[b].chunk - 1
    /\ \A a, b \in 1..Len(started) :
          (a < b /\ started[a].genId = started[b].genId)
              => started[a].chunk < started[b].chunk
    /\ \A a \in 1..Len(started) :
          \E b \in 1..Len(synthLog) : /\ synthLog[b].genId = started[a].genId
                                      /\ synthLog[b].chunk = started[a].chunk
    /\ \A k \in 1..Len(sources) :
          sources[k].state # "ended"
              => \A b \in 1..Len(synthLog) :
                    synthLog[b].genId = jobs[sources[k].job].genId
                        => synthLog[b].chunk <= sources[k].chunk
    /\ \A j \in 1..Len(jobs) :
          jobs[j].pc = "done"
              => \A c \in 0..(jobs[j].chunks - 1) :
                    \E b \in 1..Len(synthLog) : /\ synthLog[b].genId = jobs[j].genId
                                                /\ synthLog[b].chunk = c

\* a job of two chunks, never cancelled, has played both to their end
C11_Witness ==
    /\ Len(jobs) = 1
    /\ jobs[1].chunks = 2
    /\ jobs[1].pc = "done"
    /\ speechGeneration = jobs[1].genId
    /\ Len(started) = 2
    /\ started[1].chunk = 0
    /\ started[2].chunk = 1
    /\ \A k \in 1..Len(sources) : sources[k].state = "ended"


\* the texts of the messages that made a turn of the output
OutputTexts(output) ==
    UNION {{output[t].parts[q].text : q \in 1..Len(output[t].parts)} :
              t \in 1..Len(output)} \ {""}

\* C12: for a history of more than 30 messages the output is built from the
\* last 30 messages, less the first of them when it is written by the
\* assistant: every such message with a text makes a turn, and no older
\* message does.
C12_LastThirty ==
    Len(fHistory) > 30
        => LET first == Len(fHistory) - 29
               from == IF fHistory[first].author = "ai" THEN first + 1 ELSE first
               kept == {i \in from..Len(fHistory) :
                           fHistory[i].author = "user" \/ fHistory[i].text # ""}
           IN /\ OutputTexts(fOutput) = {fHistory[i].text : i \in kept}
              /\ Len(fOutput) = Cardinality(kept)
              /\ \A i \in 1..(first - 1) : fHistory[i].text \notin OutputTexts(fOutput)

\* 33 messages, the window starts with an assistant message that is dropped
C12_Witness ==
    /\ Len(fHistory) = 33
    /\ fHistory[3].author = "user"
    /\ fHistory[4].author = "ai"
    /\ fHistory[5].author = "user"
    /\ Len(fOutput) = 29
    /\ fOutput[1].parts[1].text = "5"

\* C13: the output of formatHistoryForApi is empty or begins with a user turn.
C13_StartsWithUser ==
    fOutput = <<>> \/ fOutput[1].role = "user"


\* the envelopes executeTool made: in getAiResponseAfterConsent every
\* envelope, in getAiResponse those of the names it does not handle itself
ExecutorEnvelopes ==
    {i \in 1..Len(oExchange) :
        /\ oExchange[i].name # "user"
        /\ \/ oFn = "afterConsent"
           \/ oExchange[i].name \notin {"rememberFact", "generateImage", "editImage",
                                        "generateVideo"}}

C15_GenericFailureText ==
    \A i \in ExecutorEnvelopes :
        (oExchange[i].kind = "error"
           /\ oExchange[i].name \in (availableTools \cup {"requestLocation"}))
            => oExchange[i].message = "Failed to execute function."

\* the fixed texts of the catch blocks of the two handlers
SafeTexts(kind) ==
    IF kind = "send" THEN {"overloadedText", "rateLimitedText", "errorText"}
    ELSE {"busyText", "consentErrorText"}

Words(prompt) ==
    Cardinality({i \in 1..Len(prompt) :
                    prompt[i] # " " /\ (i = 1 \/ prompt[i - 1] = " ")})

\* C17: selectModel applies its rules in priority order: video or audio
\* media gives gemini-2.5-pro; otherwise a prompt containing a keyword gives
\* gemini-2.5-pro; otherwise a prompt of at most 3 words gives
\* gemini-2.5-flash-lite; otherwise gemini-2.5-flash; the thinking budget is
\* requested exactly for gemini-2.5-pro.
C17_SelectModelRules ==
    sModel # ""
        => /\ sModel = (IF sMedia \in {"video", "audio"} THEN "gemini-2.5-pro"
                        ELSE IF IncludesKeyword(toLowerCase(sPrompt))
                          THEN "gemini-2.5-pro"
                        ELSE IF Words(sPrompt) <= 3 THEN "gemini-2.5-flash-lite"
                        ELSE "gemini-2.5-flash")
           /\ sThinking = 32768 <=> sModel = "gemini-2.5-pro"
           /\ sThinking \in {0, 32768}


\* C18: every gateway call goes through the retry executor; for the connection
\* of the live session: a connection that was given up on a transient error
\* has been attempted retries + 1 times.
C18_LiveConnectRetried ==
    (livePc = "failed" /\ liveConnects > 0 /\ IsTransient(liveConnectError))
        => liveConnects = DefaultRetries + 1


RECURSIVE SumSeq(_)
SumSeq(q) == IF q = <<>> THEN 0 ELSE Head(q) + SumSeq(Tail(q))

\* C20: the delay before the k-th retry is initialDelay * 2^(k-1), there are
\* at most retries delays, and the delays of one call add up to at most
\* initialDelay * (2^retries - 1), 7000 ms with the defaults.
C20_BackoffDelays ==
    /\ \A k \in 1..Len(rDelays) : rDelays[k] = InitialDelay * 2^(k - 1)
    /\ Len(rDelays) <= rRetries
    /\ SumSeq(rDelays) <= InitialDelay * (2^rRetries - 1)
    /\ SumSeq(rDelays) <= 7000

C20_Witness ==
    /\ rPc = "raised"
    /\ rRetries = DefaultRetries
    /\ rDelays = <<1000, 2000, 4000>>
    /\ SumSeq(rDelays) = 7000


\* C19: every getAiResponse call that awaits a reply of the model ends
\* (it returns, or throws what a gateway call threw), whatever the model
\* replies, provided every awaited call settles.
C19_RespondTerminates ==
    (oFn = "respond" /\ oPc = "awaitReply") ~> (oPc \in {"returned", "raised"})


\* C21: getAiResponse never returns from the handling of a rememberFact call:
\* the step that takes a rememberFact reply pushes the fact to learnedFacts,
\* sends the rememberFact result envelope into the chat and awaits the next
\* reply of the model.
C21_RememberFactContinues ==
    [][(/\ oFn = "respond"
        /\ oPc = "awaitReply"
        /\ oCall'.name = "rememberFact"
        /\ (oCall' # oCall \/ oRounds' # oRounds))
       => (/\ oPc' = "awaitReply"
           /\ oResponse' = NoResponse
           /\ oLearned' = Append(oLearned, oCall'.fact)
           /\ oExchange' = Append(oExchange,
                                  FunctionResponse("rememberFact", "result",
                                                   "Fact remembered successfully.")))]_vars

C21_Witness ==
    /\ oFn = "respond"
    /\ oPc = "awaitReply"
    /\ oCall.name = "rememberFact"
    /\ oLearned = <<oCall.fact>>
    /\ Len(oExchange) = 2


\* C22: once a turn of handleSendMessage has ended, by a response or by an
\* error, every fact pushed to learnedFacts during the turn is in userMemory.
C22_LearnedFactsStored ==
    (turn.kind = "none" /\ oFn = "respond" /\ oPc \in {"returned", "raised"})
        => \A i \in 1..Len(oLearned) :
              \E k \in 1..Len(userMemory) : userMemory[k] = oLearned[i]


\* C23: a billing-class failure of the generation call of generateImage or
\* generateVideo ends in the billing response: an error envelope that carries
\* a billing-class error is never fed into the chat for these tools, unless
\* the generation call itself had succeeded (a success envelope comes first).
C23_BillingFailureReturnsBilling ==
    \A i \in 1..Len(oExchange) :
        (/\ oExchange[i].kind = "error"
         /\ oExchange[i].name \in {"generateImage", "generateVideo"}
         /\ oExchange[i].message = "billed users")
            => \E k \in 1..(i - 1) :
                  oExchange[k].name = oExchange[i].name /\ oExchange[k].kind = "result"


\* the tools whose branch of getAiResponse runs a generation call
GenerationTools == {"generateImage", "editImage", "generateVideo"}

\* the success envelopes of generation tools sent so far in the call
GenerationSuccesses ==
    {i \in 1..Len(oExchange) :
        oExchange[i].name \in GenerationTools /\ oExchange[i].kind = "result"}

\* C24: when the generation call of a getAiResponse call has succeeded (its
\* success envelope was sent), the response returned carries the generated
\* image or the video in state 'generating', and one success envelope was sent.
C24_SuccessCarriesMedia ==
    (oFn = "respond" /\ oPc = "returned" /\ GenerationSuccesses # {})
        => /\ Cardinality(GenerationSuccesses) = 1
           /\ \A i \in GenerationSuccesses :
                 IF oExchange[i].name = "generateVideo"
                   THEN oResponse.generatedVideo = "generating"
                   ELSE oResponse.generatedImage


\* C25: the groundingSources of the response returned by the grounding branch
\* hold no entry with an empty uri and no two entries with the same uri.
C25_SourcesFilteredAndDistinct ==
    (oPc = "returned" /\ oResponse.grounded)
        => /\ \A i \in 1..Len(oResponse.groundingSources) :
                 oResponse.groundingSources[i] # ""
           /\ \A i, k \in 1..Len(oResponse.groundingSources) :
                 oResponse.groundingSources[i] = oResponse.groundingSources[k] => i = k


\* C26: within one getAiResponse call no chat.sendMessage is issued after
\* retryWithBackoff has given up on a chat.sendMessage: a call that awaits
\* the send that follows a generation, and does not return from it, sends
\* nothing more into the chat.
C26_NoSendAfterGiveUp ==
    [][(oFn = "respond" /\ oPc = "awaitFinal" /\ oPc' # "returned")
          => oExchange' = oExchange]_vars


\* the messages of history that formatHistoryForApi retains: the last 30,
\* less the first of them when it is written by the assistant
Retained(history) ==
    LET first == IF Len(history) > MAX_HISTORY_LENGTH
                   THEN Len(history) - MAX_HISTORY_LENGTH + 1 ELSE 1
    IN {i \in first..Len(history) : ~(i = first /\ history[i].author = "ai")}

\* the turns of output made of the message with this text
TurnsOf(output, text) ==
    {t \in 1..Len(output) : \E q \in 1..Len(output[t].parts) : output[t].parts[q].text = text}

\* C27: every retained assistant message with requiresConsent and an action
\* makes exactly one turn of the output: a model turn whose only part is a
\* requestPermission functionCall with reason (the text of the message),
\* toolToCall and toolArgs of the action; it makes no text part.
C27_ConsentAsFunctionCall ==
    \A i \in Retained(fHistory) :
        (/\ fHistory[i].author = "ai"
         /\ fHistory[i].requiresConsent
         /\ fHistory[i].action # NoAction)
            => /\ Cardinality(TurnsOf(fOutput, fHistory[i].text)) = 1
               /\ \A t \in TurnsOf(fOutput, fHistory[i].text) :
                     fOutput[t] =
                        [role |-> "model",
                         parts |-> <<[kind |-> "functionCall",
                                      text |-> fHistory[i].text,
                                      name |-> "requestPermission",
                                      toolToCall |-> fHistory[i].action.toolName,
                                      toolArgs |-> fHistory[i].action.toolArgs]>>]

\* user, consent request, user, consent request: both requests are retained
C27_Witness ==
    /\ Len(fHistory) = 4
    /\ fHistory[1].author = "user"
    /\ fHistory[2].requiresConsent
    /\ fHistory[4].requiresConsent
    /\ Len(fOutput) = 4
    /\ fOutput[4].parts[1].kind = "functionCall"


\* the turns of output that hold a functionCall part
InvocationTurns(output) ==
    {t \in 1..Len(output) :
        \E q \in 1..Len(output[t].parts) : output[t].parts[q].kind = "functionCall"}

\* the history handleConsent hands to getAiResponseAfterConsent, formatted:
\* the messages of the session up to the consent request
HistoryUpToConsentRequest ==
    formatHistoryForApi(SubSeq(chatSessions[turn.chatId], 1, turn.index))

\* C28: the functionResponse getAiResponseAfterConsent sends names the
\* function of the functionCall turn that ends its formatted history, and in
\* the formatted history of a session no functionCall turn is followed
\* directly by another model turn.
C28_InvocationsPaired ==
    /\ (turn.kind = "consent" /\ oFn = "afterConsent" /\ oPc = "consentReply")
          => LET h == HistoryUpToConsentRequest
             IN /\ Len(h) \in InvocationTurns(h)
                /\ oExchange[Len(oExchange)].name = h[Len(h)].parts[1].name
    /\ \A c \in DOMAIN chatSessions :
          LET h == formatHistoryForApi(chatSessions[c])
          IN \A t \in InvocationTurns(h) : t < Len(h) => h[t + 1].role # "model"


\* the message a turn of fOutput was made of: the one whose text it carries
TurnSource(t) ==
    CHOOSE i \in 1..Len(fHistory) : fHistory[i].text = fOutput[t].parts[1].text

RECURSIVE Flatten(_)
Flatten(strings) ==
    IF strings = <<>> THEN <<>> ELSE Head(strings) \o Flatten(Tail(strings))

NotWhitespace(c) == c \notin Whitespace

\* C30: the chunks of splitTextIntoChunks(text), put end to end, are the
\* text without its asterisks, up to whitespace; every chunk but the last
\* ends with a sentence delimiter.
C30_NoTextLost ==
    /\ SelectSeq(Flatten(cChunks), NotWhitespace)
          = SelectSeq(StripEmphasis(cText), NotWhitespace)
    /\ \A i \in 1..(Len(cChunks) - 1) :
          cChunks[i] # <<>> /\ cChunks[i][Len(cChunks[i])] \in Delimiters


\* C31: every getAiSpeech request of a speech job is issued while the
\* generation counter equals the id the job captured at its start; a job
\* whose id is stale issues none.
C31_SynthOnlyWhileCurrent ==
    \A i \in 1..Len(synthLog) : synthLog[i].genId = synthLog[i].generation

\* a job of two chunks found its id stale when it came to chunk 1
C31_Witness ==
    \E j \in 1..Len(jobs) :
        /\ jobs[j].chunks = 2
        /\ jobs[j].pc = "aborted"
        /\ jobs[j].index = 1
        /\ speechGeneration # jobs[j].genId
        /\ \E i \in 1..Len(synthLog) :
              synthLog[i].genId = jobs[j].genId /\ synthLog[i].chunk = 0
        /\ \A i \in 1..Len(synthLog) :
              synthLog[i].genId = jobs[j].genId => synthLog[i].chunk = 0


\* C32: a speech job ends: it comes to the end of its chunks, or it stops at
\* a test of the generation counter, and it stops there only when it was
\* cancelled.  A job that is not cancelled gets past every chunk whose
\* synthesis or playback fails and finishes.
C32_JobFinishes ==
    /\ \A j \in 1..SpeechMaxTurns :
          (j <= Len(jobs)) ~> (j <= Len(jobs) /\ jobs[j].pc \in {"done", "aborted"})
    /\ [](\A j \in 1..Len(jobs) :
             jobs[j].pc = "aborted" => speechGeneration # jobs[j].genId)

\* a job of two chunks is done and was not cancelled; no source was started
\* for its chunk 0, chunk 1 was requested all the same
C32_Witness ==
    \E j \in 1..Len(jobs) :
        /\ jobs[j].chunks = 2
        /\ jobs[j].pc = "done"
        /\ speechGeneration = jobs[j].genId
        /\ \A i \in 1..Len(started) :
              started[i].genId = jobs[j].genId => started[i].chunk # 0
        /\ \E i \in 1..Len(synthLog) :
              synthLog[i].genId = jobs[j].genId /\ synthLog[i].chunk = 1


\* a call of getAiResponse or getAiResponseAfterConsent is in flight
CallInFlight == oPc \notin {"idle", "returned", "raised"}

\* C33: at most one call of the service is in flight: a handler begins a turn
\* (handleSendMessage, handleConsent) only while no turn is loading and no
\* call is in flight, and isLoading is true exactly while the call of a turn
\* is in flight.
C33_OneCallInFlight ==
    /\ [](/\ isLoading <=> turn.kind # "none"
          /\ isLoading <=> CallInFlight)
    /\ [][(sends' # sends \/ consumed' # consumed)
             => (~isLoading /\ turn.kind = "none" /\ ~CallInFlight
                 /\ isLoading' /\ turn'.kind # "none")]_vars

\* the call of handleConsent is in flight, after the turn of a send has
\* ended; the consent button and the InputBar refuse a further submit
C33_Witness ==
    /\ sends = 1
    /\ Len(consumed) = 1
    /\ turn.kind = "consent"
    /\ isLoading
    /\ CallInFlight
    /\ ~InputBarAccepts
    /\ \A i \in 1..Len(chatSessions[activeChatId]) : ~ConsentButtonEnabled(i)


\* message before has become message after by the grant of consent:
\* consentGranted is set and the acknowledgement is appended to the text
Approved(before, after) ==
    /\ before.author = "ai"
    /\ before.requiresConsent
    /\ ~before.consentGranted
    /\ before.text = "reason"
    /\ after = [before EXCEPT !.consentGranted = TRUE, !.text = "reason+granted"]

\* C34: under handleSendMessage, handleConsent and handleSelectProjectKey a
\* session only grows at its end: every message keeps its position and its
\* content, but for the message approved by handleConsent, whose
\* consentGranted is set and whose text gets the acknowledgement appended.
C34_AppendOnly ==
    [][\A c \in DOMAIN chatSessions :
          /\ c \in DOMAIN chatSessions'
          /\ Len(chatSessions'[c]) >= Len(chatSessions[c])
          /\ Len(chatSessions'[c]) <= Len(chatSessions[c]) + 1
          /\ \A i \in 1..Len(chatSessions[c]) :
                \/ chatSessions'[c][i] = chatSessions[c][i]
                \/ /\ consumed' = Append(consumed, <<c, i>>)
                   /\ Approved(chatSessions[c][i], chatSessions'[c][i])]_vars

\* a session holds the user message, the approved consent request, the
\* project note and the answer after consent
C34_Witness ==
    \E c \in DOMAIN chatSessions :
        /\ Len(chatSessions[c]) = 4
        /\ chatSessions[c][1].author = "user"
        /\ chatSessions[c][2].consentGranted
        /\ chatSessions[c][2].text = "reason+granted"
        /\ chatSessions[c][3].text = "projectConfiguredText"
        /\ turn.kind = "none"


\* the wordings of the catch blocks, by the failure they name
OverloadedTexts == {"overloadedText", "busyText"}
RateLimitedTexts == {"rateLimitedText"}
GenericTexts == {"errorText", "consentErrorText"}

\* the text of the message a step appends to the session of the turn
AppendedText == chatSessions'[turn.chatId][Len(chatSessions'[turn.chatId])].text

\* C35: when the service call of a turn is given up, the message appended
\* names the failure: an overloaded wording for an overloaded error, a
\* rate-limited wording for a rate-limited one, the generic wording for any
\* other, in a send turn and in a consent turn alike.
C35_ErrorTextNamesFailure ==
    [][(turn.kind # "none" /\ oPc' = "raised")
         => /\ isOverloaded(oError') => AppendedText \in OverloadedTexts
            /\ (isRateLimited(oError') /\ ~isOverloaded(oError'))
                  => AppendedText \in RateLimitedTexts
            /\ ~IsTransient(oError') => AppendedText \in GenericTexts]_vars

\* C36: when the service call of a consent turn is given up on an
\* overloaded error, the consent button of the approved message is rendered
\* again once the turn has ended: the message still requires consent and its
\* consentGranted is not set.
C36_ConsentOfferedAgain ==
    [][(turn.kind = "consent" /\ oPc' = "raised" /\ isOverloaded(oError'))
         => /\ ~isLoading'
            /\ chatSessions'[turn.chatId][turn.index].requiresConsent
            /\ ~chatSessions'[turn.chatId][turn.index].consentGranted]_vars


\* the tool a dispatch of functionCall invokes
DispatchedTool(functionCall) ==
    IF functionCall.name = "requestLocation" THEN "getUserLocation" ELSE functionCall.name

\* C37: of the function calls of a response the loop handles the first and
\* no other: the branch is chosen by the first call; at most one handler is
\* invoked, the one of the first call; at most one functionResponse is sent,
\* named after the first call; at most the fact of the first call is
\* learned; and the envelope sent once the handler has settled answers the
\* first call.
C37_OnlyFirstCallHandled ==
    [][/\ (oFn = "respond" /\ oPc = "awaitReply" /\ oPc' # "raised"
             /\ Len(oResponseCalls') > 0)
          => /\ oCall' = oResponseCalls'[1]
             /\ \/ oDispatched' = oDispatched
                \/ oDispatched' =
                     Append(oDispatched,
                            [tool |-> DispatchedTool(oResponseCalls'[1]),
                             args |-> oDispatched'[Len(oDispatched')].args])
             /\ \/ oExchange' = oExchange
                \/ /\ Len(oExchange') = Len(oExchange) + 1
                   /\ SubSeq(oExchange', 1, Len(oExchange)) = oExchange
                   /\ oExchange'[Len(oExchange')].name = oResponseCalls'[1].name
             /\ \/ oLearned' = oLearned
                \/ /\ oResponseCalls'[1].name = "rememberFact"
                   /\ oLearned' = Append(oLearned, oResponseCalls'[1].fact)
       /\ (oFn = "respond" /\ oPc = "awaitTool")
          => /\ oDispatched' = oDispatched
             /\ oExchange' = Append(oExchange, oExchange'[Len(oExchange')])
             /\ oExchange'[Len(oExchange')].name = oResponseCalls[1].name
             /\ oResponseCalls' = oResponseCalls]_vars

\* the response asked for getEmails and for getCalendarEvents: getEmails has
\* run and has been answered, getCalendarEvents has not
C37_Witness ==
    /\ oFn = "respond"
    /\ oPc = "awaitReply"
    /\ Len(oResponseCalls) = 2
    /\ oResponseCalls[1].name = "getEmails"
    /\ oResponseCalls[2].name = "getCalendarEvents"
    /\ Len(oDispatched) = 1
    /\ oDispatched[1].tool = "getEmails"
    /\ Len(oExchange) = 2
    /\ oExchange[2].name = "getEmails"


====
